---- MODULE Spec2Model ----
(***************************************************************************)
(* Model of the path task of rtsp-simple-server (internal/core/path.go)    *)
(* together with the clients that talk to it: publisher sessions, reader   *)
(* sessions, describing connections and static source tasks.               *)
(*                                                                         *)
(* The path task handles one request at a time (the select loop of         *)
(* path.run), so every handler is one atomic action.  Handlers are written *)
(* as operators over a record "s" that holds the fields of the path and    *)
(* the things a handler can touch (replies, close() calls on sessions and  *)
(* sources, streams); an action applies a handler to the current state and *)
(* commits the result.                                                     *)
(*                                                                         *)
(* The components next to the path (the fan-out of a stream to its         *)
(* readers, the authentication of requests, the HLS server, an HLS muxer,  *)
(* the task of a static source, the H.264 and H.265 processors) each have  *)
(* a specification of their own; the fields of the component a             *)
(* specification is about are kept in the record "comp".                   *)
(***************************************************************************)
EXTENDS Integers, Sequences, FiniteSets, TLC

\* bounds of the model
MaxSrc == 2         \* static source instances a path may create
MaxStreams == 2     \* streams a path may create
MaxPackets == 4     \* packets a publisher writes to a stream
ReadBufferCount == 2 \* readBufferCount: slots of the ring buffer of a reader
MaxRequests == 2    \* requests a connection sends
MaxMuxers == 3      \* muxers the HLS server creates
TicksPerSecond == 2 \* resolution of the clock of the HLS muxer
MaxConnects == 3    \* connection attempts of a static source
MaxNALUs == 3       \* NAL units of an access unit
MaxAggregated == 2  \* NAL units of an aggregation packet

Publishers == {"pA", "pB"}
Readers == {"rRtsp", "rRtmp"}
RTSPReaders == {"rRtsp"}
Describers == {"dA"}
SrcIds == 1 .. MaxSrc

VARIABLES
    conf,               \* path.conf, immutable
    source,             \* path.source
    sourceReady,        \* path.sourceReady
    stream,             \* path.stream, 0 is nil
    readers,            \* path.readers: reader -> "none" | "preplay" | "play"
    describeRequests,   \* path.describeRequests
    setupPlayRequests,  \* path.setupPlayRequests
    onDemandState,      \* path.onDemandState
    onDemandCmd,        \* path.onDemandCmd # nil
    onReadyCmd,         \* path.onReadyCmd # nil
    readyTimer,         \* path.onDemandReadyTimer is armed
    closeTimer,         \* path.onDemandCloseTimer is armed
    nonRTSPReaders,     \* stream.nonRTSPReaders of the current stream
    streamCount,        \* streams created so far
    streamsClosed,      \* streams on which close() was called
    srcCount,           \* static source instances created so far
    srcPc,              \* position of each static source task
    srcClosed,          \* static sources on which close() was called
    closedR,            \* reader sessions closed by the path, close not yet processed
    closedP,            \* publisher sessions closed by the path, close not yet processed
    pubState,           \* state of each publisher session
    rdState,            \* state of each reader session
    setupStatus,        \* status of the responses to SETUP sent by the last step
    badTrackID,         \* sessions whose SETUP in progress names a track the stream has not
    sessions,           \* rtspServer.sessions
    onReadCmd,          \* the runOnRead command of the session is running
    descRes,            \* describe replies sent by the last step
    setupRes,           \* setup replies sent by the last step
    annRes,             \* announce replies sent by the last step
    recRes,             \* record replies sent by the last step
    pathPc,             \* "running" | "joining" | "closed"
    crashed,            \* the process has panicked
    lastOp,             \* the request handled by the last step
    comp                \* the component next to the path that a specification
                        \* is about, a record of its fields

pathVars == <<source, sourceReady, stream, readers, describeRequests,
              setupPlayRequests, onDemandState, onDemandCmd, onReadyCmd,
              readyTimer, closeTimer, nonRTSPReaders, streamCount,
              streamsClosed, srcCount, srcPc, srcClosed, closedR, closedP,
              descRes, setupRes, annRes, recRes, pathPc, crashed>>

coreVars == <<conf, pathVars, pubState, rdState, setupStatus, badTrackID,
              sessions, onReadCmd, lastOp>>

\* the fields of the components

\* fan-out of a stream to its non-RTSP readers
\* stream.nonRTSPReaders.ma
fanMa == comp.fanMa
\* the ring buffer of each reader
ringBuffer == comp.ringBuffer
\* packets the publisher has written to the stream
fanWritten == comp.fanWritten
\* packets each reader task has pulled, in order
fanReceived == comp.fanReceived
\* readers whose connection has ended
fanLeft == comp.fanLeft

\* authentication of the requests of a connection
\* "idle" | "stalling" | "closed"
authPc == comp.authPc
\* seconds the handler has waited
authElapsed == comp.authElapsed
\* status of the last response, 0 when none
authStatus == comp.authStatus
\* outcome of the authentication of the last request
authLast == comp.authLast
\* requests received
authReqs == comp.authReqs

\* the HLS server
\* s.hlsAlwaysRemux
hlsAlwaysRemux == comp.hlsAlwaysRemux
\* s.muxers: the muxers the server holds
hlsMuxers == comp.hlsMuxers
\* muxers created so far
hlsCreated == comp.hlsCreated
\* muxers whose run has ended and that wait in onMuxerClose
hlsEnded == comp.hlsEnded
\* the event the server handled last
hlsLastEvent == comp.hlsLastEvent

\* one HLS muxer and the clock; times are in ticks
\* m.hlsAlwaysRemux
muxAlwaysRemux == comp.muxAlwaysRemux
\* "starting" | "running" | "closed"
muxState == comp.muxState
\* why runInner returned
muxWhy == comp.muxWhy
\* ticks since the last whole second of the clock
muxPhase == comp.muxPhase
\* time.Since(time.Unix(lastRequestTime, 0))
muxSince == comp.muxSince
\* time since the last request was handled
muxGap == comp.muxGap
\* time until closeCheckTicker fires
muxTickIn == comp.muxTickIn
\* requests wait in m.requests
muxPending == comp.muxPending

\* the two tasks of one HLS muxer and the HTTP requests forwarded to it
\* position of hlsMuxer.run: "select" | "waitInner" | "exit" | "done"
runPc == comp.runPc
\* position of hlsMuxer.runInner:
\* "setup" | "sendReady" | "streaming" | "sendErr" | "done"
innerPc == comp.innerPc
\* m.ctx is cancelled
muxCtxDone == comp.muxCtxDone
\* innerCtx is cancelled
innerCtxDone == comp.innerCtxDone
\* isReady of hlsMuxer.run
isReady == comp.isReady
\* m.requests
muxRequests == comp.muxRequests
\* position of each HTTP request: "none" | "sending" | "queued" | "answered"
reqPc == comp.reqPc
\* m.ctx was cancelled when onRequest was called with the request
reqSentCancelled == comp.reqSentCancelled
\* the status codes sent on the Res channel of each request
reqAnswers == comp.reqAnswers
\* m.parent.onMuxerClose(m) has been called
closeNotified == comp.closeNotified

\* the sessions map of the RTSP server and its lock
\* s.sessions
srvSessions == comp.srvSessions
\* holders of the shared lock of s.mutex
rwReaders == comp.rwReaders
\* the exclusive lock of s.mutex is held
rwWriter == comp.rwWriter
\* position of each API call: "idle" | "iterating" | "found"
apiPc == comp.apiPc
\* req.id of each kick
apiTarget == comp.apiTarget
\* position of the callbacks of each session of the library:
\* "none" | "opening" | "open" | "closing"
cbPc == comp.cbPc
\* the runtime has stopped the process: concurrent map iteration and map write
srvFatal == comp.srvFatal

\* the task of a static RTSP source
\* where Source.run is
taskPc == comp.taskPc
\* s.terminate is closed
srcTerminated == comp.srcTerminated
\* the dial goroutine: "none" | "running" | "ok" | "err"
srcDial == comp.srcDial
\* seconds waited in time.After(retryPause)
srcElapsed == comp.srcElapsed
\* calls of DialRead
srcConnects == comp.srcConnects
\* the path has been told the source is ready
srcReady == comp.srcReady

\* the H.264 processor of a track
\* t.format.SPS
h264SPS == comp.h264SPS
\* t.format.PPS
h264PPS == comp.h264PPS
\* "idle" | "unit" | "done"
h264Pc == comp.h264Pc
\* the access unit given to Process
h264AU == comp.h264AU
\* the parameter sets stored when the unit was remuxed
h264Stored == comp.h264Stored
\* tunit.AU after Process
h264Out == comp.h264Out

\* the H.265 processor of a track; NAL units are byte sequences
\* t.format.VPS
h265VPS == comp.h265VPS
\* t.format.SPS
h265SPS == comp.h265SPS
\* t.format.PPS
h265PPS == comp.h265PPS
\* "idle" | "packet" | "done"
h265Pc == comp.h265Pc
\* the NAL units the sender put into the packet
h265Carried == comp.h265Carried
\* pkt.Payload
h265Payload == comp.h265Payload
\* the stored sets when the packet arrived
h265Before == comp.h265Before

vars == <<coreVars, comp>>

----------------------------------------------------------------------------
\* values

NoSource == [kind |-> "nil", pub |-> "none", src |-> 0]
RedirectSource == [kind |-> "redirect", pub |-> "none", src |-> 0]
PubSource(p) == [kind |-> "pub", pub |-> p, src |-> 0]
StaticSource(i) == [kind |-> "static", pub |-> "none", src |-> i]

NoRes == [kind |-> "none", stream |-> 0, info |-> ""]
StreamRes(st) == [kind |-> "stream", stream |-> st, info |-> ""]
RedirectRes(u) == [kind |-> "redirect", stream |-> 0, info |-> u]
ErrRes(e) == [kind |-> "err", stream |-> 0, info |-> e]
OkRes == [kind |-> "ok", stream |-> 0, info |-> ""]

ErrTimeout == "source of path has timed out"
ErrTerminated == "terminated"
ErrNoOnePublishing == "no one is publishing to path"
ErrStaticSource == "path is assigned to a static source"
ErrAlreadyPublishing == "another publisher is already publishing to path"
ErrNotAssigned == "publisher is not assigned to this path anymore"

\* conf.SourceRedirect of a path whose source is "redirect"
ConfSourceRedirect == "rtsp://elsewhere/redirected"

\* values of conf.Fallback: none, a path of this server, a full URL
Fallbacks == {"", "/fb", "rtsp://other/fb"}

\* the URLs describe requests come with: scheme, user and host
URLs == {[scheme |-> "rtsp", user |-> "", host |-> "hostA:8554"],
         [scheme |-> "rtsps", user |-> "bob", host |-> "hostB:8322"]}

\* strings.HasPrefix(f, "/")
IsInternalRef(f) == f \in {"/fb"}

\* base.URL.String() of a URL made of a scheme, a user, a host and a path
URLString(scheme, user, host, path) ==
    scheme \o "://" \o (IF user = "" THEN "" ELSE user \o "@") \o host \o path

\* the fallback URL a describe is answered with
fallbackURL(u) ==
    IF IsInternalRef(conf.fallback)
    THEN URLString(u.scheme, u.user, u.host, conf.fallback)
    ELSE conf.fallback

\* the configurations explored: all are accepted by
\* PathConf.checkAndFillMissing
Confs ==
    { c \in [source : {"publisher", "static", "redirect"},
             sourceOnDemand : BOOLEAN,
             runOnDemand : BOOLEAN,
             disablePublisherOverride : BOOLEAN,
             fallback : Fallbacks,
             regexp : BOOLEAN,
             runOnReady : BOOLEAN] :
        /\ (c.source = "static" => ~c.regexp)
        /\ (c.sourceOnDemand => c.source = "static")
        /\ (c.runOnDemand => c.source = "publisher")
        /\ (c.source # "publisher" => ~c.disablePublisherOverride)
        /\ (c.source = "redirect" => c.fallback \in {"", "/fb"})
        /\ (c.sourceOnDemand => c.fallback = "")
        \* an on-demand publisher path varies one option at a time
        /\ (c.runOnDemand =>
              Cardinality({o \in {"o", "f", "r"} :
                  \/ o = "o" /\ c.disablePublisherOverride
                  \/ o = "f" /\ c.fallback # ""
                  \/ o = "r" /\ c.regexp}) <= 1)
        /\ c.runOnReady }

\* status codes of RTSP responses; 0 stands for no response
StatusOK == 200
StatusBadRequest == 400
StatusNotFound == 404

\* rtspSession.onSetup that answers every error with Bad Request
onSetupStatusNoNotFound(res, trackOk) ==
    CASE res.kind = "stream" -> IF trackOk THEN StatusOK ELSE StatusBadRequest
      [] res.kind = "err" -> StatusBadRequest
      [] OTHER -> 0

\* the status rtspSession.onSetup answers with, given the reply of the path
\* and whether ctx.TrackID is one of the tracks of the stream
onSetupStatus(res, trackOk) ==
    CASE res.kind = "stream" -> IF trackOk THEN StatusOK ELSE StatusBadRequest
      [] res.kind = "err" /\ res.info = "no one is publishing to path" -> StatusNotFound
      [] res.kind = "err" -> StatusBadRequest
      [] OTHER -> 0

\* rtspSession.onPause that leaves the runOnRead command running
onPauseCmdKeepsRunning(c) == c

\* rtspSession.onPause on the runOnRead command: s.onReadCmd.Close()
onPauseCmd(c) == FALSE

\* rtspSession.onClose that leaves the runOnRead command alone
onCloseCmdKeepsRunning(st, c) == c

\* rtspSession.onClose on the runOnRead command: closed in state Read only
onCloseCmd(st, c) == IF st = "read" THEN FALSE ELSE c

\* the non-RTSP readers of a stream: an RTMP connection and an HLS muxer
FanReaders == {"rtmp", "hls"}

\* ringbuffer.New(readBufferCount): the slots are empty (0), the reader
\* starts at slot 1 and the writer advances before it stores
rbNew ==
    [buffer |-> [i \in 0 .. ReadBufferCount - 1 |-> 0],
     readIndex |-> 1 % ReadBufferCount,
     writeIndex |-> 0]

\* the slot the next Push stores into
rbNextSlot(b) == (b.writeIndex + 1) % ReadBufferCount

\* ringBuffer.Push: stores into the next slot whatever it holds, and returns
rbPush(b, x) ==
    [b EXCEPT !.writeIndex = rbNextSlot(b),
              !.buffer[rbNextSlot(b)] = x]

\* ringBuffer.Pull finds data in the slot it reads
rbCanPull(b) == b.buffer[b.readIndex] # 0

\* ringBuffer.Pull: takes what the slot holds and advances
rbPull(b) ==
    [b EXCEPT !.buffer[b.readIndex] = 0,
              !.readIndex = (b.readIndex + 1) % ReadBufferCount]

\* the connections that send requests to a path with readUser and readPass:
\* two RTSP connections and an RTMP connection
AuthConns == {"rtsp1", "rtsp2", "rtmp"}
RTMPConns == {"rtmp"}

\* what a request carries
Credentials == {"missing", "wrong", "right"}

StatusUnauthorized == 401

\* seconds
pauseAfterAuthError == 2

\* rtspConn.authenticate: missing credentials are not critical, the client
\* may retry; wrong credentials are critical
rtspAuthenticate(cred) ==
    CASE cred = "right" -> "ok"
      [] cred = "missing" -> "notCritical"
      [] OTHER -> "critical"

\* rtmpConn.authenticate: every failure is critical
rtmpAuthenticate(cred) ==
    IF cred = "right" THEN "ok" ELSE "critical"

\* the error switch of the handlers that never waits
onAuthResultNoStall(c, res) ==
    CASE res = "ok" -> [pc |-> "idle", status |-> StatusOK]
      [] res = "notCritical" -> [pc |-> "idle", status |-> StatusUnauthorized]
      [] OTHER -> [pc |-> "closed",
                   status |-> IF c \in RTMPConns THEN 0 ELSE StatusUnauthorized]

\* the error switch of onAnnounce, onSetup and runRead: where the handler is
\* and what it has answered right after the path replied
onAuthResult(c, res) ==
    CASE res = "ok" -> [pc |-> "idle", status |-> StatusOK]
      [] res = "notCritical" -> [pc |-> "idle", status |-> StatusUnauthorized]
      [] OTHER -> [pc |-> "stalling", status |-> 0]

\* the path names HTTP requests and ready sources carry
HlsNames == {"cam", "tv"}

\* the HTTP requests the HLS server forwards to the muxer
HlsRequests == 1 .. MaxRequests

\* the sessions of the RTSP library and the API calls in progress
SessionIds == {"s1", "s2"}
KickCalls == {"kickA", "kickB"}
ApiCalls == {"list"} \cup KickCalls

\* findOrCreateMuxer without the lookup
findOrCreateMuxerAlways(muxers, pathName, id) ==
    muxers \cup {[name |-> pathName, id |-> id]}

\* findOrCreateMuxer: s.muxers after the call; id is the muxer newHLSMuxer
\* would return
findOrCreateMuxer(muxers, pathName, id) ==
    IF \E m \in muxers : m.name = pathName
    THEN muxers
    ELSE muxers \cup {[name |-> pathName, id |-> id]}

\* seconds
closeCheckPeriod == 1
closeAfterInactivity == 60

\* a duration in ticks
Seconds(n) == n * TicksPerSecond

\* the largest duration the clock of the model tells apart
MuxLongest == Seconds(closeAfterInactivity + 2 * closeCheckPeriod)

\* the close check of runInner: the muxer closes
muxCloseCheck(alwaysRemux, since) ==
    ~alwaysRemux /\ since >= Seconds(closeAfterInactivity)

\* seconds
retryPause == 5

\* the loop of Source.run: where run goes when runInner returns ok
afterRunInner(ok) == IF ok THEN "pauseSelect" ELSE "exited"

\* a NAL unit is its header byte and the rest of its bytes; NoNALU is nil
NoNALU == [hdr |-> 0, body |-> 0]

NALUTypeIDR == 5
NALUTypeSPS == 7
NALUTypePPS == 8
NALUTypeAccessUnitDelimiter == 9

\* h264.NALUType(nalu[0] & 0x1F)
NALUType(nalu) == nalu.hdr % 32

\* the NAL units of the access units explored: two IDR slices, a non-IDR
\* slice, two SPS, a PPS and an AUD
NALUs ==
    {[hdr |-> 101, body |-> 1], [hdr |-> 37, body |-> 2],
     [hdr |-> 65, body |-> 3],
     [hdr |-> 103, body |-> 4], [hdr |-> 39, body |-> 5],
     [hdr |-> 104, body |-> 6],
     [hdr |-> 9, body |-> 7]}

\* the access units explored
AccessUnits == UNION {[1 .. n -> NALUs] : n \in 1 .. MaxNALUs}

\* updateTrackParametersFromNALUs: <<SPS, PPS>> of the format afterwards
RECURSIVE updateTrackParametersFromNALUs(_, _, _)
updateTrackParametersFromNALUs(sps, pps, nalus) ==
    IF nalus = <<>> THEN <<sps, pps>>
    ELSE LET nalu == Head(nalus)
             typ == NALUType(nalu)
         IN updateTrackParametersFromNALUs(
                IF typ = NALUTypeSPS THEN nalu ELSE sps,
                IF typ = NALUTypePPS THEN nalu ELSE pps,
                Tail(nalus))

\* the second loop of remuxAccessUnit
RECURSIVE remuxFilter(_)
remuxFilter(nalus) ==
    IF nalus = <<>> THEN <<>>
    ELSE LET typ == NALUType(Head(nalus))
         IN IF typ \in {NALUTypeSPS, NALUTypePPS, NALUTypeAccessUnitDelimiter}
            THEN remuxFilter(Tail(nalus))
            ELSE <<Head(nalus)>> \o remuxFilter(Tail(nalus))

\* remuxAccessUnit that leaves the AUDs in
remuxAccessUnitKeepAUD(sps, pps, nalus) ==
    LET addParameters == \E i \in 1 .. Len(nalus) : NALUType(nalus[i]) = NALUTypeIDR
        kept == SelectSeq(nalus, LAMBDA x :
                    NALUType(x) \notin {NALUTypeSPS, NALUTypePPS})
    IN IF addParameters /\ sps # NoNALU /\ pps # NoNALU
       THEN <<sps, pps>> \o kept
       ELSE kept

\* remuxAccessUnit: the access unit returned; nil is the empty sequence
remuxAccessUnit(sps, pps, nalus) ==
    LET addParameters == \E i \in 1 .. Len(nalus) : NALUType(nalus[i]) = NALUTypeIDR
    IN IF addParameters /\ sps # NoNALU /\ pps # NoNALU
       THEN <<sps, pps>> \o remuxFilter(nalus)
       ELSE remuxFilter(nalus)

NALUType_VPS_NUT == 32
NALUType_SPS_NUT == 33
NALUType_PPS_NUT == 34
NALUType_AggregationUnit == 48

\* h265.NALUType((b >> 1) & 0b111111) of the first byte b of a NAL unit
H265NALUType(b) == (b \div 2) % 64

\* the H.265 NAL units explored: two VPS, an SPS, a PPS and a slice
H265NALUs ==
    {<<64, 1, 10>>, <<64, 1, 11>>, <<66, 1, 20>>, <<68, 1, 30>>, <<2, 1, 40>>}

\* the payload of the aggregation packet that carries nalus: the payload
\* header, then every NAL unit after its size in 16 bits
RECURSIVE AggregationBody(_)
AggregationBody(nalus) ==
    IF nalus = <<>> THEN <<>>
    ELSE <<Len(Head(nalus)) \div 256, Len(Head(nalus)) % 256>>
         \o Head(nalus) \o AggregationBody(Tail(nalus))

AggregationPacket(nalus) == <<96, 1>> \o AggregationBody(nalus)

\* what a sender puts into one packet: a NAL unit, or several aggregated
H265Carriable ==
    UNION {[1 .. n -> H265NALUs] : n \in 1 .. MaxAggregated}

\* pkt.Payload of the packet that carries nalus
H265PayloadOf(nalus) ==
    IF Len(nalus) = 1 THEN nalus[1] ELSE AggregationPacket(nalus)

\* the loop over the aggregation units in rtpH265ExtractVPSSPSPPS; first is
\* pkt.Payload[0], which the loop takes the type of each unit from
RECURSIVE h265ExtractAggregated(_, _, _, _, _)
h265ExtractAggregated(first, payload, vps, sps, pps) ==
    IF Len(payload) < 2 THEN <<vps, sps, pps>>
    ELSE LET size == (payload[1] * 256 + payload[2]) % 65536
             rest == SubSeq(payload, 3, Len(payload))
         IN IF size = 0 THEN <<vps, sps, pps>>
            ELSE IF size > Len(rest) THEN <<<<>>, <<>>, <<>>>>
            ELSE LET nalu == SubSeq(rest, 1, size)
                     typ == H265NALUType(first)
                 IN h265ExtractAggregated(first,
                        SubSeq(rest, size + 1, Len(rest)),
                        IF typ = NALUType_VPS_NUT THEN nalu ELSE vps,
                        IF typ = NALUType_SPS_NUT THEN nalu ELSE sps,
                        IF typ = NALUType_PPS_NUT THEN nalu ELSE pps)

\* rtpH265ExtractVPSSPSPPS: <<vps, sps, pps>>, the empty sequence is nil
rtpH265ExtractVPSSPSPPS(payload) ==
    IF Len(payload) < 2 THEN <<<<>>, <<>>, <<>>>>
    ELSE LET typ == H265NALUType(payload[1])
         IN CASE typ = NALUType_VPS_NUT -> <<payload, <<>>, <<>>>>
              [] typ = NALUType_SPS_NUT -> <<<<>>, payload, <<>>>>
              [] typ = NALUType_PPS_NUT -> <<<<>>, <<>>, payload>>
              [] typ = NALUType_AggregationUnit ->
                    h265ExtractAggregated(payload[1],
                        SubSeq(payload, 3, Len(payload)), <<>>, <<>>, <<>>)
              [] OTHER -> <<<<>>, <<>>, <<>>>>

\* formatProcessorH265.updateTrackParametersFromRTPPacket: the stored
\* <<VPS, SPS, PPS>> afterwards
h265UpdateFromRTPPacket(stored, payload) ==
    LET x == rtpH265ExtractVPSSPSPPS(payload)
        update == \E i \in 1 .. 3 : x[i] # <<>> /\ x[i] # stored[i]
    IN IF update
       THEN [i \in 1 .. 3 |-> IF x[i] = <<>> THEN stored[i] ELSE x[i]]
       ELSE stored

SeqToSet(q) == {q[i] : i \in 1 .. Len(q)}

\* the state a handler works on
St ==
    [source |-> source, sourceReady |-> sourceReady, stream |-> stream,
     readers |-> readers, describeRequests |-> describeRequests,
     setupPlayRequests |-> setupPlayRequests, onDemandState |-> onDemandState,
     onDemandCmd |-> onDemandCmd, onReadyCmd |-> onReadyCmd,
     readyTimer |-> readyTimer, closeTimer |-> closeTimer,
     nonRTSPReaders |-> nonRTSPReaders, streamCount |-> streamCount,
     streamsClosed |-> streamsClosed, srcCount |-> srcCount, srcPc |-> srcPc,
     srcClosed |-> srcClosed, closedR |-> closedR, closedP |-> closedP,
     descRes |-> [d \in Describers |-> NoRes],
     setupRes |-> [r \in Readers |-> NoRes],
     annRes |-> [p \in Publishers |-> NoRes],
     recRes |-> [p \in Publishers |-> NoRes],
     pathPc |-> pathPc, crashed |-> FALSE,
     badTrackID |-> badTrackID, sessions |-> sessions, onReadCmd |-> onReadCmd]

----------------------------------------------------------------------------
\* helpers of the path

hasStaticSource == conf.source = "static"

isOnDemand == (hasStaticSource /\ conf.sourceOnDemand) \/ conf.runOnDemand

shouldClose(s) ==
    /\ conf.regexp
    /\ s.source = NoSource
    /\ \A r \in Readers : s.readers[r] = "none"
    /\ Len(s.describeRequests) = 0
    /\ Len(s.setupPlayRequests) = 0

\* stream.readerRemove: a nil stream is dereferenced for non-RTSP readers only
streamReaderRemove(s, r) ==
    IF r \in RTSPReaders THEN s
    ELSE IF s.stream = 0 THEN [s EXCEPT !.crashed = TRUE]
    ELSE [s EXCEPT !.nonRTSPReaders = @ \ {r}]

\* stream.readerAdd
streamReaderAdd(s, r) ==
    IF r \in RTSPReaders THEN s
    ELSE IF s.stream = 0 THEN [s EXCEPT !.crashed = TRUE]
    ELSE [s EXCEPT !.nonRTSPReaders = @ \cup {r}]

doReaderRemove(s, r) ==
    LET s1 == IF s.readers[r] = "play" THEN streamReaderRemove(s, r) ELSE s
    IN [s1 EXCEPT !.readers[r] = "none"]

staticSourceCreate(s) ==
    LET id == s.srcCount + 1
    IN [s EXCEPT !.source = StaticSource(id),
                 !.srcCount = id,
                 !.srcPc[id] = "connecting"]

\* onDemandStartSource that forgets to arm the ready timer
onDemandStartSourceNoTimer(s) ==
    LET s1 == IF hasStaticSource
              THEN staticSourceCreate(s)
              ELSE [s EXCEPT !.onDemandCmd = TRUE]
    IN [s1 EXCEPT !.onDemandState = "waitingReady"]

onDemandStartSource(s) ==
    LET s1 == IF hasStaticSource
              THEN staticSourceCreate(s)
              ELSE [s EXCEPT !.onDemandCmd = TRUE]
    IN [s1 EXCEPT !.readyTimer = TRUE,
                  !.onDemandState = "waitingReady"]

onDemandScheduleClose(s) ==
    [s EXCEPT !.closeTimer = TRUE, !.onDemandState = "closing"]

RECURSIVE removeAllReaders(_, _)
removeAllReaders(s, rs) ==
    IF rs = {} THEN s
    ELSE LET r == CHOOSE x \in rs : TRUE
             s1 == doReaderRemove(s, r)
         IN removeAllReaders([s1 EXCEPT !.closedR = @ \cup {r}], rs \ {r})

\* sourceSetNotReady that closes the stream but keeps the reference to it
sourceSetNotReadyKeepsStream(s) ==
    LET s1 == removeAllReaders(s, {r \in Readers : s.readers[r] # "none"})
    IN [s1 EXCEPT !.onReadyCmd = FALSE,
                  !.sourceReady = FALSE,
                  !.streamsClosed = IF s1.stream # 0 THEN @ \cup {s1.stream} ELSE @,
                  !.nonRTSPReaders = {}]

\* sourceSetNotReady that drops the stream without closing it
sourceSetNotReadyNoStreamClose(s) ==
    LET s1 == removeAllReaders(s, {r \in Readers : s.readers[r] # "none"})
    IN [s1 EXCEPT !.onReadyCmd = FALSE,
                  !.sourceReady = FALSE,
                  !.nonRTSPReaders = {},
                  !.stream = 0]

sourceSetNotReady(s) ==
    LET s1 == removeAllReaders(s, {r \in Readers : s.readers[r] # "none"})
    IN [s1 EXCEPT !.onReadyCmd = FALSE,
                  !.sourceReady = FALSE,
                  !.streamsClosed = IF s1.stream # 0 THEN @ \cup {s1.stream} ELSE @,
                  !.nonRTSPReaders = {},
                  !.stream = 0]

\* x.close() on whatever the source slot holds, after a type assertion to an
\* interface that has close(): a nil or redirect source makes it panic
closeSource(s) ==
    CASE s.source.kind = "static" -> [s EXCEPT !.srcClosed = @ \cup {s.source.src}]
      [] s.source.kind = "pub" -> [s EXCEPT !.closedP = @ \cup {s.source.pub}]
      [] OTHER -> [s EXCEPT !.crashed = TRUE]

RECURSIVE onDemandCloseSource(_)
RECURSIVE doPublisherRemove(_)

\* onDemandCloseSource that leaves a static source ready
onDemandCloseSourceStaysReady(s) ==
    LET s1 == IF s.onDemandState = "closing"
              THEN [s EXCEPT !.closeTimer = FALSE]
              ELSE s
        s2 == [s1 EXCEPT !.onDemandState = "initial"]
    IN IF hasStaticSource
       THEN [closeSource(s2) EXCEPT !.source = NoSource]
       ELSE LET s3 == IF s2.source # NoSource
                      THEN doPublisherRemove(closeSource(s2))
                      ELSE s2
            IN [s3 EXCEPT !.onDemandCmd = FALSE]

onDemandCloseSource(s) ==
    LET s1 == IF s.onDemandState = "closing"
              THEN [s EXCEPT !.closeTimer = FALSE]
              ELSE s
        s2 == [s1 EXCEPT !.onDemandState = "initial"]
    IN IF hasStaticSource
       THEN LET s3 == IF s2.sourceReady THEN sourceSetNotReady(s2) ELSE s2
                s4 == closeSource(s3)
            IN [s4 EXCEPT !.source = NoSource]
       ELSE LET s3 == IF s2.source # NoSource
                      THEN doPublisherRemove(closeSource(s2))
                      ELSE s2
            IN [s3 EXCEPT !.onDemandCmd = FALSE]

\* doPublisherRemove that always makes the bare not-ready transition
doPublisherRemoveBare(s) ==
    LET s1 == IF s.sourceReady THEN sourceSetNotReady(s) ELSE s
    IN [s1 EXCEPT !.source = NoSource]

doPublisherRemove(s) ==
    LET s1 == IF s.sourceReady
              THEN IF isOnDemand /\ s.onDemandState # "initial"
                   THEN onDemandCloseSource(s)
                   ELSE sourceSetNotReady(s)
              ELSE s
    IN [s1 EXCEPT !.source = NoSource]

\* handleReaderSetupPlayPost that leaves the close timer armed
handleReaderSetupPlayPostKeepsTimer(s, r) ==
    LET s1 == [s EXCEPT !.readers[r] = "preplay"]
        s2 == IF isOnDemand /\ s1.onDemandState = "closing"
              THEN [s1 EXCEPT !.onDemandState = "ready"]
              ELSE s1
    IN [s2 EXCEPT !.setupRes[r] = StreamRes(s2.stream)]

handleReaderSetupPlayPost(s, r) ==
    LET s1 == [s EXCEPT !.readers[r] = "preplay"]
        s2 == IF isOnDemand /\ s1.onDemandState = "closing"
              THEN [s1 EXCEPT !.onDemandState = "ready", !.closeTimer = FALSE]
              ELSE s1
    IN [s2 EXCEPT !.setupRes[r] = StreamRes(s2.stream)]

RECURSIVE setupPostAll(_, _)
setupPostAll(s, q) ==
    IF q = <<>> THEN s
    ELSE setupPostAll(handleReaderSetupPlayPost(s, Head(q)), Tail(q))

\* sourceSetReady that moves to Ready without looking at the readers
sourceSetReadyAlwaysReady(s) ==
    LET st == s.streamCount + 1
        s1 == [s EXCEPT !.sourceReady = TRUE,
                        !.stream = st,
                        !.streamCount = st,
                        !.nonRTSPReaders = {}]
        s2 == IF isOnDemand
              THEN LET a == [s1 EXCEPT
                               !.readyTimer = FALSE,
                               !.descRes = [d \in Describers |->
                                   IF d \in SeqToSet(s1.describeRequests)
                                   THEN StreamRes(st) ELSE @[d]],
                               !.describeRequests = <<>>]
                       b == setupPostAll(a, a.setupPlayRequests)
                       c == [b EXCEPT !.setupPlayRequests = <<>>]
                   IN [c EXCEPT !.onDemandState = "ready"]
              ELSE s1
    IN [s2 EXCEPT !.onReadyCmd = conf.runOnReady]

sourceSetReady(s) ==
    LET st == s.streamCount + 1
        s1 == [s EXCEPT !.sourceReady = TRUE,
                        !.stream = st,
                        !.streamCount = st,
                        !.nonRTSPReaders = {}]
        s2 == IF isOnDemand
              THEN LET a == [s1 EXCEPT
                               !.readyTimer = FALSE,
                               !.descRes = [d \in Describers |->
                                   IF d \in SeqToSet(s1.describeRequests)
                                   THEN StreamRes(st) ELSE @[d]],
                               !.describeRequests = <<>>]
                       b == setupPostAll(a, a.setupPlayRequests)
                       c == [b EXCEPT !.setupPlayRequests = <<>>]
                   IN IF \E r \in Readers : c.readers[r] # "none"
                      THEN [c EXCEPT !.onDemandState = "ready"]
                      ELSE onDemandScheduleClose(c)
              ELSE s1
    IN [s2 EXCEPT !.onReadyCmd = conf.runOnReady]


----------------------------------------------------------------------------
\* request handlers of the path

\* handleDescribe that looks at the fallback before the on-demand start
handleDescribeFallbackFirst(s, d, u) ==
    IF s.source = RedirectSource
    THEN [s EXCEPT !.descRes[d] = RedirectRes(ConfSourceRedirect)]
    ELSE IF s.sourceReady
    THEN [s EXCEPT !.descRes[d] = StreamRes(s.stream)]
    ELSE IF conf.fallback # ""
    THEN [s EXCEPT !.descRes[d] = RedirectRes(fallbackURL(u))]
    ELSE IF isOnDemand
    THEN LET s1 == IF s.onDemandState = "initial"
                   THEN onDemandStartSource(s)
                   ELSE s
         IN [s1 EXCEPT !.describeRequests = Append(@, d)]
    ELSE [s EXCEPT !.descRes[d] = ErrRes(ErrNoOnePublishing)]

handleDescribe(s, d, u) ==
    IF s.source = RedirectSource
    THEN [s EXCEPT !.descRes[d] = RedirectRes(ConfSourceRedirect)]
    ELSE IF s.sourceReady
    THEN [s EXCEPT !.descRes[d] = StreamRes(s.stream)]
    ELSE IF isOnDemand
    THEN LET s1 == IF s.onDemandState = "initial"
                   THEN onDemandStartSource(s)
                   ELSE s
         IN [s1 EXCEPT !.describeRequests = Append(@, d)]
    ELSE IF conf.fallback # ""
    THEN [s EXCEPT !.descRes[d] = RedirectRes(fallbackURL(u))]
    ELSE [s EXCEPT !.descRes[d] = ErrRes(ErrNoOnePublishing)]

handlePublisherRemove(s, p) ==
    IF s.source = PubSource(p) THEN doPublisherRemove(s) ELSE s

\* the static source test comes after the test of the source slot: while the
\* slot is empty the configured source is not looked at
handlePublisherAnnounce(s, p) ==
    IF s.source # NoSource /\ hasStaticSource
    THEN [s EXCEPT !.annRes[p] = ErrRes(ErrStaticSource)]
    ELSE IF s.source # NoSource /\ conf.disablePublisherOverride
    THEN [s EXCEPT !.annRes[p] = ErrRes(ErrAlreadyPublishing)]
    ELSE LET s1 == IF s.source # NoSource
                   THEN IF s.source.kind = "pub"
                        THEN doPublisherRemove(closeSource(s))
                        ELSE [s EXCEPT !.crashed = TRUE]
                   ELSE s
         IN [s1 EXCEPT !.source = PubSource(p), !.annRes[p] = OkRes]

\* handlePublisherRecord that does not look at the author
handlePublisherRecordAnyAuthor(s, p) ==
    LET s1 == sourceSetReady(s)
    IN [s1 EXCEPT !.recRes[p] = StreamRes(s1.stream)]

handlePublisherRecord(s, p) ==
    IF s.source # PubSource(p)
    THEN [s EXCEPT !.recRes[p] = ErrRes(ErrNotAssigned)]
    ELSE LET s1 == sourceSetReady(s)
         IN [s1 EXCEPT !.recRes[p] = StreamRes(s1.stream)]

\* handlePublisherPause that leaves the path ready
handlePublisherPauseKeepsReady(s, p) == s

handlePublisherPause(s, p) ==
    IF s.source = PubSource(p) /\ s.sourceReady
    THEN IF isOnDemand /\ s.onDemandState # "initial"
         THEN onDemandCloseSource(s)
         ELSE sourceSetNotReady(s)
    ELSE s

\* handleReaderRemove that never schedules the close of the source
handleReaderRemoveNoSchedule(s, r) ==
    IF s.readers[r] # "none" THEN doReaderRemove(s, r) ELSE s

handleReaderRemove(s, r) ==
    LET s1 == IF s.readers[r] # "none" THEN doReaderRemove(s, r) ELSE s
    IN IF /\ isOnDemand
          /\ \A x \in Readers : s1.readers[x] = "none"
          /\ s1.onDemandState = "ready"
       THEN onDemandScheduleClose(s1)
       ELSE s1

\* handleReaderSetupPlay that never holds a request
handleReaderSetupPlayNoQueue(s, r) ==
    IF s.sourceReady
    THEN handleReaderSetupPlayPost(s, r)
    ELSE [s EXCEPT !.setupRes[r] = ErrRes(ErrNoOnePublishing)]

handleReaderSetupPlay(s, r) ==
    IF s.sourceReady
    THEN handleReaderSetupPlayPost(s, r)
    ELSE IF isOnDemand
    THEN LET s1 == IF s.onDemandState = "initial"
                   THEN onDemandStartSource(s)
                   ELSE s
         IN [s1 EXCEPT !.setupPlayRequests = Append(@, r)]
    ELSE [s EXCEPT !.setupRes[r] = ErrRes(ErrNoOnePublishing)]

handleReaderPlay(s, r) ==
    streamReaderAdd([s EXCEPT !.readers[r] = "play"], r)

handleReaderPause(s, r) ==
    IF s.readers[r] = "play"
    THEN streamReaderRemove([s EXCEPT !.readers[r] = "preplay"], r)
    ELSE s

handleSourceStaticSetReady(s, i) ==
    IF s.source = StaticSource(i)
    THEN [sourceSetReady(s) EXCEPT !.srcPc[i] = "reading"]
    ELSE s

handleSourceStaticSetNotReady(s, i) ==
    IF s.source = StaticSource(i)
    THEN IF isOnDemand /\ s.onDemandState # "initial"
         THEN onDemandCloseSource(s)
         ELSE sourceSetNotReady(s)
    ELSE s

\* the ready timer branch that forgets the queued setups
handleReadyTimerForgetsSetups(s) ==
    LET s1 == [s EXCEPT
                 !.readyTimer = FALSE,
                 !.descRes = [d \in Describers |->
                     IF d \in SeqToSet(s.describeRequests)
                     THEN ErrRes(ErrTimeout) ELSE @[d]],
                 !.describeRequests = <<>>]
    IN onDemandCloseSource(s1)

handleReadyTimer(s) ==
    LET s1 == [s EXCEPT
                 !.readyTimer = FALSE,
                 !.descRes = [d \in Describers |->
                     IF d \in SeqToSet(s.describeRequests)
                     THEN ErrRes(ErrTimeout) ELSE @[d]],
                 !.describeRequests = <<>>,
                 !.setupRes = [r \in Readers |->
                     IF r \in SeqToSet(s.setupPlayRequests)
                     THEN ErrRes(ErrTimeout) ELSE @[r]],
                 !.setupPlayRequests = <<>>]
    IN onDemandCloseSource(s1)

handleCloseTimer(s) ==
    onDemandCloseSource([s EXCEPT !.closeTimer = FALSE])

\* the part of run() after the loop, without the answers to the queues
runExitNoDrain(s) ==
    LET s1 == [s EXCEPT
                 !.readyTimer = FALSE,
                 !.closeTimer = FALSE,
                 !.srcClosed = 1 .. s.srcCount]
        s2 == sourceSetNotReady(s1)
    IN IF s2.source.kind \in {"static", "pub"}
       THEN [closeSource(s2) EXCEPT !.pathPc = "joining"]
       ELSE [s2 EXCEPT !.onDemandCmd = FALSE, !.pathPc = "closed"]

\* the part of run() after the loop
runExit(s) ==
    LET s1 == [s EXCEPT
                 !.readyTimer = FALSE,
                 !.closeTimer = FALSE,
                 !.srcClosed = 1 .. s.srcCount,
                 !.descRes = [d \in Describers |->
                     IF d \in SeqToSet(s.describeRequests)
                     THEN ErrRes(ErrTerminated) ELSE @[d]],
                 !.setupRes = [r \in Readers |->
                     IF r \in SeqToSet(s.setupPlayRequests)
                     THEN ErrRes(ErrTerminated) ELSE @[r]]]
        s2 == sourceSetNotReady(s1)
    IN IF s2.source.kind \in {"static", "pub"}
       THEN [closeSource(s2) EXCEPT !.pathPc = "joining"]
       ELSE [s2 EXCEPT !.onDemandCmd = FALSE, !.pathPc = "closed"]

\* the shouldClose() check that follows some handlers in run()
afterHandler(s) ==
    IF shouldClose(s) THEN runExit(s) ELSE s


----------------------------------------------------------------------------
\* the system

\* the path after newPath
PathInit ==
    /\ conf \in Confs
    /\ source = IF conf.source = "redirect" THEN RedirectSource
                ELSE IF conf.source = "static" /\ ~conf.sourceOnDemand
                THEN StaticSource(1)
                ELSE NoSource
    /\ sourceReady = FALSE
    /\ stream = 0
    /\ readers = [r \in Readers |-> "none"]
    /\ describeRequests = <<>>
    /\ setupPlayRequests = <<>>
    /\ onDemandState = "initial"
    /\ onDemandCmd = FALSE
    /\ onReadyCmd = FALSE
    /\ readyTimer = FALSE
    /\ closeTimer = FALSE
    /\ nonRTSPReaders = {}
    /\ streamCount = 0
    /\ streamsClosed = {}
    /\ srcCount = IF conf.source = "static" /\ ~conf.sourceOnDemand THEN 1 ELSE 0
    /\ srcPc = [i \in SrcIds |->
                  IF i = 1 /\ conf.source = "static" /\ ~conf.sourceOnDemand
                  THEN "connecting" ELSE "none"]
    /\ srcClosed = {}
    /\ closedR = {}
    /\ closedP = {}
    /\ pubState = [p \in Publishers |-> "initial"]
    /\ rdState = [r \in Readers |-> "initial"]
    /\ setupStatus = [r \in Readers |-> 0]
    /\ badTrackID = {}
    /\ sessions = {}
    /\ onReadCmd = [r \in RTSPReaders |-> FALSE]
    /\ descRes = [d \in Describers |-> NoRes]
    /\ setupRes = [r \in Readers |-> NoRes]
    /\ annRes = [p \in Publishers |-> NoRes]
    /\ recRes = [p \in Publishers |-> NoRes]
    /\ pathPc = "running"
    /\ crashed = FALSE
    /\ lastOp = [name |-> "init", who |-> ""]

\* no stream is being written
FanIdle ==
    [fanMa |-> {},
     ringBuffer |-> [r \in FanReaders |-> rbNew],
     fanWritten |-> 0,
     fanReceived |-> [r \in FanReaders |-> <<>>],
     fanLeft |-> {}]

\* no connection has sent a request
AuthIdle ==
    [authPc |-> [c \in AuthConns |-> "idle"],
     authElapsed |-> [c \in AuthConns |-> 0],
     authStatus |-> [c \in AuthConns |-> 0],
     authLast |-> [c \in AuthConns |-> "none"],
     authReqs |-> [c \in AuthConns |-> 0]]

\* the HLS server right after newHLSServer
HlsIdle(alwaysRemux) ==
    [hlsAlwaysRemux |-> alwaysRemux,
     hlsMuxers |-> {},
     hlsCreated |-> 0,
     hlsEnded |-> {},
     hlsLastEvent |-> [kind |-> "none", name |-> ""]]

\* newHLSMuxer when the clock is phase ticks past a whole second:
\* lastRequestTime is time.Now().Unix()
MuxIdle(alwaysRemux, phase) ==
    [muxAlwaysRemux |-> alwaysRemux,
     muxState |-> "starting",
     muxWhy |-> "",
     muxPhase |-> phase,
     muxSince |-> phase,
     muxGap |-> 0,
     muxTickIn |-> 0,
     muxPending |-> FALSE]

\* newHLSMuxer: run has started runInner and enters its loop
MuxRunIdle ==
    [runPc |-> "select",
     innerPc |-> "setup",
     muxCtxDone |-> FALSE,
     innerCtxDone |-> FALSE,
     isReady |-> FALSE,
     muxRequests |-> <<>>,
     reqPc |-> [q \in HlsRequests |-> "none"],
     reqSentCancelled |-> [q \in HlsRequests |-> FALSE],
     reqAnswers |-> [q \in HlsRequests |-> <<>>],
     closeNotified |-> FALSE]

\* newRTSPServer: no session, the lock is free
SrvIdle ==
    [srvSessions |-> {},
     rwReaders |-> {},
     rwWriter |-> FALSE,
     apiPc |-> [a \in ApiCalls |-> "idle"],
     apiTarget |-> [a \in ApiCalls |-> ""],
     cbPc |-> [x \in SessionIds |-> "none"],
     srvFatal |-> FALSE]

\* sourcertsp.New: run is about to call runInner
TaskIdle ==
    [taskPc |-> "connect",
     srcTerminated |-> FALSE,
     srcDial |-> "none",
     srcElapsed |-> 0,
     srcConnects |-> 0,
     srcReady |-> FALSE]

\* newH264: the parameter sets are those of the description of the track
H264Idle(sps, pps) ==
    [h264SPS |-> sps,
     h264PPS |-> pps,
     h264Pc |-> "idle",
     h264AU |-> <<>>,
     h264Stored |-> <<sps, pps>>,
     h264Out |-> <<>>]

\* newH265: the parameter sets are those of the description of the track
H265Idle(vps, sps, pps) ==
    [h265VPS |-> vps,
     h265SPS |-> sps,
     h265PPS |-> pps,
     h265Pc |-> "idle",
     h265Carried |-> <<>>,
     h265Payload |-> <<>>,
     h265Before |-> <<vps, sps, pps>>]

\* the path alone, no component next to it
Idle == [component |-> "none"]

Init == PathInit /\ comp = Idle

\* a panic stops the process: nothing but the crash is recorded
Commit(s, ps, rs, op) ==
    IF s.crashed
    THEN /\ crashed' = TRUE
         /\ UNCHANGED <<conf, source, sourceReady, stream, readers,
                        describeRequests, setupPlayRequests, onDemandState,
                        onDemandCmd, onReadyCmd, readyTimer, closeTimer,
                        nonRTSPReaders, streamCount, streamsClosed, srcCount,
                        srcPc, srcClosed, closedR, closedP, pubState, rdState,
                        setupStatus, badTrackID, sessions, onReadCmd,
                        descRes, setupRes, annRes, recRes, pathPc>>
         /\ lastOp' = op
         /\ UNCHANGED comp
    ELSE /\ crashed' = FALSE
         /\ source' = s.source
         /\ sourceReady' = s.sourceReady
         /\ stream' = s.stream
         /\ readers' = s.readers
         /\ describeRequests' = s.describeRequests
         /\ setupPlayRequests' = s.setupPlayRequests
         /\ onDemandState' = s.onDemandState
         /\ onDemandCmd' = s.onDemandCmd
         /\ onReadyCmd' = s.onReadyCmd
         /\ readyTimer' = s.readyTimer
         /\ closeTimer' = s.closeTimer
         /\ nonRTSPReaders' = s.nonRTSPReaders
         /\ streamCount' = s.streamCount
         /\ streamsClosed' = s.streamsClosed
         /\ srcCount' = s.srcCount
         /\ srcPc' = s.srcPc
         /\ srcClosed' = s.srcClosed
         /\ closedR' = s.closedR
         /\ closedP' = s.closedP
         /\ descRes' = s.descRes
         /\ setupRes' = s.setupRes
         /\ annRes' = s.annRes
         /\ recRes' = s.recRes
         /\ pathPc' = s.pathPc
         /\ pubState' = ps
         \* a session that receives a stream from setup moves to PreRead,
         \* unless the stream has not the track it asked for
         /\ rdState' = [r \in Readers |->
                          IF s.setupRes[r].kind = "stream" /\ r \notin s.badTrackID
                          THEN "preRead" ELSE rs[r]]
         /\ setupStatus' = [r \in Readers |->
                               IF r \in RTSPReaders
                               THEN onSetupStatus(s.setupRes[r], r \notin s.badTrackID)
                               ELSE 0]
         /\ badTrackID' = {r \in s.badTrackID : s.setupRes[r].kind = "none"}
         \* a request that fails returns an error to the server, which closes
         \* the connection; a session still Initial goes with it, and its
         \* onClose calls nothing
         /\ sessions' = s.sessions \
               ({r \in RTSPReaders :
                    /\ rs[r] = "initial"
                    /\ onSetupStatus(s.setupRes[r], r \notin s.badTrackID)
                          \notin {0, StatusOK}}
                \cup {p \in Publishers :
                    ps[p] = "initial" /\ s.annRes[p].kind = "err"})
         /\ onReadCmd' = s.onReadCmd
         /\ lastOp' = op
         /\ UNCHANGED <<conf, comp>>

Alive == ~crashed

\* the path task is in its loop.  Once it has left it, a request that expects
\* no answer (play, pause, remove) returns at once through <-pa.ctx.Done() and
\* changes nothing in the path: the sessions' steps after that are left out
Running == pathPc = "running"

\* guards that keep the counters within the bounds of the model
CanCreateStream == streamCount < MaxStreams
CanStartSource ==
    (hasStaticSource /\ isOnDemand /\ ~sourceReady /\ onDemandState = "initial")
        => srcCount < MaxSrc

\* a session whose describe or setup is held by the path waits for the answer
\* in its handler and handles no other request, nor its close, meanwhile
Blocked(c) == Running /\ (c \in SeqToSet(describeRequests) \/ c \in SeqToSet(setupPlayRequests))

\* path.onDescribe
Describe(d) ==
    /\ Alive /\ ~Blocked(d)
    /\ CanStartSource
    /\ \E u \in URLs :
         LET s == IF Running
                  THEN afterHandler(handleDescribe(St, d, u))
                  ELSE [St EXCEPT !.descRes[d] = ErrRes(ErrTerminated)]
         IN Commit(s, pubState, rdState,
                   [name |-> "describe", who |-> d, url |-> u])

\* rtspSession.onAnnounce, path.onPublisherAnnounce
PublisherAnnounce(p) ==
    /\ Alive
    /\ pubState[p] = "initial"
    /\ LET s0 == [St EXCEPT !.sessions = @ \cup {p}]
           s == IF Running
                THEN handlePublisherAnnounce(s0, p)
                ELSE [s0 EXCEPT !.annRes[p] = ErrRes(ErrTerminated)]
       IN Commit(s,
                 IF s.annRes[p] = OkRes THEN [pubState EXCEPT ![p] = "prePublish"] ELSE pubState,
                 rdState, [name |-> "publisherAnnounce", who |-> p])

\* rtspSession.onRecord, path.onPublisherRecord
PublisherRecord(p) ==
    /\ Alive
    /\ pubState[p] = "prePublish"
    /\ (source = PubSource(p) => CanCreateStream)
    /\ LET s == IF Running
                THEN handlePublisherRecord(St, p)
                ELSE [St EXCEPT !.recRes[p] = ErrRes(ErrTerminated)]
       IN Commit(s,
                 IF s.recRes[p].kind = "stream" THEN [pubState EXCEPT ![p] = "publish"] ELSE pubState,
                 rdState, [name |-> "publisherRecord", who |-> p])

\* rtspSession.onPause, path.onPublisherPause
PublisherPause(p) ==
    /\ Alive
    /\ pubState[p] = "publish"
    /\ Running
    /\ LET s == afterHandler(handlePublisherPause(St, p))
       IN Commit(s, [pubState EXCEPT ![p] = "prePublish"], rdState,
                 [name |-> "publisherPause", who |-> p])

\* rtspServer.OnSessionClose, rtspSession.onClose of a publisher,
\* path.onPublisherRemove
PublisherClose(p) ==
    /\ Alive
    /\ p \in sessions
    /\ Running
    /\ LET s0 == [St EXCEPT !.sessions = @ \ {p}]
           s == IF pubState[p] \in {"prePublish", "publish"}
                THEN afterHandler(handlePublisherRemove(s0, p))
                ELSE s0
       IN Commit([s EXCEPT !.closedP = @ \ {p}],
                 [pubState EXCEPT ![p] = "initial"], rdState,
                 [name |-> IF pubState[p] \in {"prePublish", "publish"}
                           THEN "publisherRemove" ELSE "sessionClose",
                  who |-> p])

\* the setup of reader r whose TrackID is (trackOk) or is not one of the
\* tracks of the stream: rtspServer.OnSessionOpen, path.onReaderSetupPlay
setupRequest(r, trackOk) ==
    LET s0 == [St EXCEPT
                 !.badTrackID = IF trackOk THEN @ \ {r} ELSE @ \cup {r},
                 !.sessions = IF r \in RTSPReaders THEN @ \cup {r} ELSE @]
        s == IF Running
             THEN afterHandler(handleReaderSetupPlay(s0, r))
             ELSE [s0 EXCEPT !.setupRes[r] = ErrRes(ErrTerminated)]
    IN Commit(s, pubState, rdState, [name |-> "readerSetupPlay", who |-> r])

\* rtspSession.onSetup that asks the path whatever the state of the session
ReaderSetupPlayAnyState(r) ==
    /\ Alive /\ ~Blocked(r)
    /\ CanStartSource
    /\ setupRequest(r, TRUE)

\* rtspSession.onSetup, path.onReaderSetupPlay
ReaderSetupPlay(r) ==
    /\ Alive /\ ~Blocked(r)
    /\ rdState[r] \in (IF r \in RTSPReaders THEN {"initial", "preRead"} ELSE {"initial"})
    /\ CanStartSource
    /\ setupRequest(r, TRUE)

\* rtspSession.onSetup with a TrackID that the stream may not have
ReaderSetupPlayAnyTrack(r) ==
    /\ Alive /\ ~Blocked(r)
    /\ r \in RTSPReaders
    /\ rdState[r] \in {"initial", "preRead"}
    /\ CanStartSource
    /\ \E trackOk \in BOOLEAN : setupRequest(r, trackOk)

\* rtspSession.onPlay, path.onReaderPlay
ReaderPlay(r) ==
    /\ Alive /\ ~Blocked(r)
    /\ rdState[r] = "preRead"
    /\ Running
    /\ LET s0 == handleReaderPlay(St, r)
           s == IF r \in RTSPReaders
                THEN [s0 EXCEPT !.onReadCmd[r] = TRUE] ELSE s0
       IN Commit(s, pubState, [rdState EXCEPT ![r] = "read"],
                 [name |-> "readerPlay", who |-> r])

\* rtspSession.onPause, path.onReaderPause
ReaderPause(r) ==
    /\ Alive /\ ~Blocked(r)
    /\ r \in RTSPReaders
    /\ rdState[r] = "read"
    /\ Running
    /\ LET s == handleReaderPause([St EXCEPT !.onReadCmd[r] = onPauseCmd(@)], r)
       IN Commit(s, pubState, [rdState EXCEPT ![r] = "preRead"],
                 [name |-> "readerPause", who |-> r])

\* rtspServer.OnSessionClose, rtspSession.onClose of a reader,
\* path.onReaderRemove
ReaderClose(r) ==
    /\ Alive /\ ~Blocked(r)
    /\ IF r \in RTSPReaders THEN r \in sessions
                             ELSE rdState[r] \in {"preRead", "read"}
    /\ Running
    /\ LET s0 == IF r \in RTSPReaders
                 THEN [St EXCEPT
                         !.sessions = @ \ {r},
                         !.onReadCmd[r] = onCloseCmd(rdState[r], @)]
                 ELSE St
           s == IF rdState[r] \in {"preRead", "read"}
                THEN handleReaderRemove(s0, r)
                ELSE s0
       IN Commit([s EXCEPT !.closedR = @ \ {r}], pubState,
                 [rdState EXCEPT ![r] = "initial"],
                 [name |-> IF rdState[r] \in {"preRead", "read"}
                           THEN "readerRemove" ELSE "sessionClose",
                  who |-> r])

\* case <-pa.onDemandReadyTimer.C
OnDemandReadyTimer ==
    /\ Alive /\ Running
    /\ readyTimer
    /\ Commit(afterHandler(handleReadyTimer(St)), pubState, rdState,
              [name |-> "onDemandReadyTimer", who |-> ""])

\* case <-pa.onDemandCloseTimer.C
OnDemandCloseTimer ==
    /\ Alive /\ Running
    /\ closeTimer
    /\ Commit(afterHandler(handleCloseTimer(St)), pubState, rdState,
              [name |-> "onDemandCloseTimer", who |-> ""])

\* a static source has connected and calls onSourceStaticSetReady
SourceSetReady(i) ==
    /\ Alive
    /\ srcPc[i] = "connecting"
    /\ i \notin srcClosed
    /\ (source = StaticSource(i) => CanCreateStream)
    /\ LET s == IF Running THEN handleSourceStaticSetReady(St, i) ELSE St
       IN Commit(s, pubState, rdState, [name |-> "sourceStaticSetReady", who |-> "source"])

\* a static source has lost its connection: it calls onSourceStaticSetNotReady
\* and retries after the pause
SourceSetNotReady(i) ==
    /\ Alive
    /\ srcPc[i] = "reading"
    /\ i \notin srcClosed
    /\ LET s == IF Running
                THEN afterHandler(handleSourceStaticSetNotReady(St, i))
                ELSE St
       IN Commit([s EXCEPT !.srcPc[i] = "connecting"], pubState, rdState,
                 [name |-> "sourceStaticSetNotReady", who |-> "source"])

\* a closed static source leaves its loop: it calls onSourceStaticSetNotReady
\* if it was ready, and its task ends
SourceExit(i) ==
    /\ Alive
    /\ srcPc[i] \in {"connecting", "reading"}
    /\ i \in srcClosed
    /\ LET s == IF Running /\ srcPc[i] = "reading"
                THEN afterHandler(handleSourceStaticSetNotReady(St, i))
                ELSE St
       IN Commit([s EXCEPT !.srcPc[i] = "done"], pubState, rdState,
                 [name |-> "sourceExit", who |-> "source"])

\* path.close: the context is cancelled and run() leaves its loop
PathClose ==
    /\ Alive /\ Running
    /\ Commit(runExit(St), pubState, rdState, [name |-> "close", who |-> ""])

\* pa.sourceStaticWg.Wait() returns, run() ends
PathJoin ==
    /\ Alive
    /\ pathPc = "joining"
    /\ \A i \in SrcIds : srcPc[i] \in {"none", "done"}
    /\ Commit([St EXCEPT !.onDemandCmd = FALSE, !.pathPc = "closed"],
              pubState, rdState, [name |-> "joined", who |-> ""])

Next ==
    \/ \E d \in Describers : Describe(d)
    \/ \E p \in Publishers : PublisherAnnounce(p)
    \/ \E p \in Publishers : PublisherRecord(p)
    \/ \E p \in Publishers : PublisherPause(p)
    \/ \E p \in Publishers : PublisherClose(p)
    \/ \E r \in Readers : ReaderSetupPlay(r)
    \/ \E r \in Readers : ReaderPlay(r)
    \/ \E r \in Readers : ReaderPause(r)
    \/ \E r \in Readers : ReaderClose(r)
    \/ OnDemandReadyTimer
    \/ OnDemandCloseTimer
    \/ \E i \in SrcIds : SourceSetReady(i)
    \/ \E i \in SrcIds : SourceSetNotReady(i)
    \/ \E i \in SrcIds : SourceExit(i)
    \/ PathClose
    \/ PathJoin

\* the clients name tracks that exist
Spec == Init /\ [][Next]_vars

\* stream.onPacketRTP, streamNonRTSPReadersMap.forwardPacketRTP: the packet is
\* pushed to every reader of the map before the write returns
FanWrite ==
    /\ fanWritten < MaxPackets
    /\ comp' = [comp EXCEPT
                  !.fanWritten = fanWritten + 1,
                  !.ringBuffer = [r \in FanReaders |->
                                    IF r \in fanMa
                                    THEN rbPush(ringBuffer[r], fanWritten + 1)
                                    ELSE ringBuffer[r]]]
    /\ UNCHANGED coreVars

\* a reader starts to read: ringbuffer.New, path.onReaderPlay, stream.readerAdd
FanJoin(r) ==
    /\ r \notin fanMa /\ r \notin fanLeft
    /\ comp' = [comp EXCEPT !.fanMa = fanMa \cup {r},
                            !.ringBuffer[r] = rbNew]
    /\ UNCHANGED coreVars

\* the task of a reader takes one packet from its ring buffer
FanPull(r) ==
    /\ r \in fanMa
    /\ rbCanPull(ringBuffer[r])
    /\ comp' = [comp EXCEPT
                  !.fanReceived[r] =
                      Append(@, ringBuffer[r].buffer[ringBuffer[r].readIndex]),
                  !.ringBuffer[r] = rbPull(@)]
    /\ UNCHANGED coreVars

\* the connection of a reader ends: ringBuffer.Close, path.onReaderRemove,
\* stream.readerRemove
FanLeave(r) ==
    /\ r \in fanMa
    /\ comp' = [comp EXCEPT !.fanMa = fanMa \ {r},
                            !.fanLeft = fanLeft \cup {r}]
    /\ UNCHANGED coreVars

NextFan ==
    \/ FanWrite
    \/ \E r \in FanReaders : FanJoin(r)
    \/ \E r \in FanReaders : FanPull(r)
    \/ \E r \in FanReaders : FanLeave(r)

\* a path with a publisher, idle, and its stream
InitFan ==
    /\ PathInit
    /\ conf = [source |-> "publisher", sourceOnDemand |-> FALSE,
               runOnDemand |-> FALSE, disablePublisherOverride |-> FALSE,
               fallback |-> "", regexp |-> FALSE, runOnReady |-> TRUE]
    /\ comp = FanIdle

SpecFan == InitFan /\ [][NextFan]_vars

\* a request arrives on connection c and the path replies
AuthRequest(c) ==
    /\ authPc[c] = "idle"
    /\ authReqs[c] < MaxRequests
    /\ \E cred \in Credentials :
         LET res == IF c \in RTMPConns THEN rtmpAuthenticate(cred)
                                       ELSE rtspAuthenticate(cred)
             h == onAuthResult(c, res)
         IN comp' = [comp EXCEPT !.authLast[c] = res,
                                 !.authPc[c] = h.pc,
                                 !.authStatus[c] = h.status,
                                 !.authElapsed[c] = 0,
                                 !.authReqs[c] = @ + 1]
    /\ UNCHANGED coreVars

\* a second passes in <-time.After(pauseAfterAuthError)
AuthTick(c) ==
    /\ authPc[c] = "stalling"
    /\ authElapsed[c] < pauseAfterAuthError
    /\ comp' = [comp EXCEPT !.authElapsed[c] = @ + 1]
    /\ UNCHANGED coreVars

\* the wait is over: the handler returns the response and an error, and the
\* server closes the connection; an RTMP connection gets no response
AuthStallOver(c) ==
    /\ authPc[c] = "stalling"
    /\ authElapsed[c] = pauseAfterAuthError
    /\ comp' = [comp EXCEPT
                  !.authPc[c] = "closed",
                  !.authStatus[c] = IF c \in RTMPConns THEN 0
                                                        ELSE StatusUnauthorized]
    /\ UNCHANGED coreVars

NextAuth ==
    \/ \E c \in AuthConns : AuthRequest(c)
    \/ \E c \in AuthConns : AuthTick(c)
    \/ \E c \in AuthConns : AuthStallOver(c)

InitAuth ==
    /\ PathInit
    /\ conf = [source |-> "publisher", sourceOnDemand |-> FALSE,
               runOnDemand |-> FALSE, disablePublisherOverride |-> FALSE,
               fallback |-> "", regexp |-> FALSE, runOnReady |-> TRUE]
    /\ comp = AuthIdle

SpecAuth == InitAuth /\ [][NextAuth]_vars

\* case pa := <-s.pathSourceReady
HlsPathSourceReady(name) ==
    /\ hlsCreated < MaxMuxers
    /\ LET muxers == IF hlsAlwaysRemux
                     THEN findOrCreateMuxer(hlsMuxers, name, hlsCreated + 1)
                     ELSE hlsMuxers
       IN comp' = [comp EXCEPT
                     !.hlsMuxers = muxers,
                     !.hlsCreated = IF muxers # hlsMuxers THEN @ + 1 ELSE @,
                     !.hlsLastEvent = [kind |-> "pathSourceReady", name |-> name]]
    /\ UNCHANGED coreVars

\* case req := <-s.request: the muxer of req.Dir gets the request
HlsRequest(name) ==
    /\ hlsCreated < MaxMuxers
    /\ LET muxers == findOrCreateMuxer(hlsMuxers, name, hlsCreated + 1)
       IN comp' = [comp EXCEPT
                     !.hlsMuxers = muxers,
                     !.hlsCreated = IF muxers # hlsMuxers THEN @ + 1 ELSE @,
                     !.hlsLastEvent = [kind |-> "request", name |-> name]]
    /\ UNCHANGED coreVars

\* case c := <-s.muxerClose with the comparison inverted
handleMuxerCloseInverted(muxers, c) ==
    IF (\A m \in muxers : m.name # c.name) \/ c \in muxers
    THEN muxers
    ELSE {m \in muxers : m.name # c.name}

\* case c := <-s.muxerClose: s.muxers after the case; the entry of
\* c.PathName() is deleted unless it is absent or holds another muxer
handleMuxerClose(muxers, c) ==
    IF (\A m \in muxers : m.name # c.name) \/ c \notin muxers
    THEN muxers
    ELSE {m \in muxers : m.name # c.name}

\* hlsMuxer.run returns (inactivity, error of the path, writer error) and
\* calls parent.onMuxerClose
HlsMuxerEnd(m) ==
    /\ m \in hlsMuxers
    /\ m \notin hlsEnded
    /\ comp' = [comp EXCEPT !.hlsEnded = hlsEnded \cup {m}]
    /\ UNCHANGED coreVars

\* case c := <-s.muxerClose
HlsMuxerClose(c) ==
    /\ c \in hlsEnded
    /\ comp' = [comp EXCEPT
                  !.hlsEnded = hlsEnded \ {c},
                  !.hlsMuxers = handleMuxerClose(hlsMuxers, c),
                  !.hlsLastEvent = [kind |-> "muxerClose", name |-> c.name]]
    /\ UNCHANGED coreVars

NextHls ==
    \/ \E name \in HlsNames : HlsPathSourceReady(name)
    \/ \E name \in HlsNames : HlsRequest(name)
    \/ \E m \in hlsMuxers : HlsMuxerEnd(m)
    \/ \E c \in hlsEnded : HlsMuxerClose(c)

InitHls ==
    /\ PathInit
    /\ conf = [source |-> "publisher", sourceOnDemand |-> FALSE,
               runOnDemand |-> FALSE, disablePublisherOverride |-> FALSE,
               fallback |-> "", regexp |-> FALSE, runOnReady |-> TRUE]
    /\ \E alwaysRemux \in BOOLEAN : comp = HlsIdle(alwaysRemux)

SpecHls == InitHls /\ [][NextHls]_vars

\* a tick passes; the ticker does not fire late
MuxTime ==
    /\ muxState # "closed"
    /\ muxState = "running" => muxTickIn > 0
    /\ comp' = [comp EXCEPT
                  !.muxPhase = (muxPhase + 1) % TicksPerSecond,
                  !.muxSince = IF muxSince < MuxLongest THEN muxSince + 1
                                                        ELSE muxSince,
                  !.muxGap = IF muxGap < MuxLongest THEN muxGap + 1 ELSE muxGap,
                  !.muxTickIn = IF muxState = "running" THEN muxTickIn - 1
                                                        ELSE muxTickIn]
    /\ UNCHANGED coreVars

\* runInner has set the path up and signals innerReady: run handles the
\* waiting requests, runInner starts closeCheckTicker
MuxReady ==
    /\ muxState = "starting"
    /\ comp' = [comp EXCEPT
                  !.muxState = "running",
                  !.muxTickIn = Seconds(closeCheckPeriod),
                  !.muxSince = IF muxPending THEN muxPhase ELSE muxSince,
                  !.muxGap = IF muxPending THEN 0 ELSE muxGap,
                  !.muxPending = FALSE]
    /\ UNCHANGED coreVars

\* case req := <-m.request; handleRequest stores time.Now().Unix()
MuxRequest ==
    /\ muxState # "closed"
    /\ comp' = IF muxState = "running"
               THEN [comp EXCEPT !.muxSince = muxPhase, !.muxGap = 0]
               ELSE [comp EXCEPT !.muxPending = TRUE]
    /\ UNCHANGED coreVars

\* case <-closeCheckTicker.C
MuxCloseCheck ==
    /\ muxState = "running"
    /\ muxTickIn = 0
    /\ comp' = IF muxCloseCheck(muxAlwaysRemux, muxSince)
               THEN [comp EXCEPT !.muxState = "closed", !.muxWhy = "inactivity"]
               ELSE [comp EXCEPT !.muxTickIn = Seconds(closeCheckPeriod)]
    /\ UNCHANGED coreVars

\* the path refuses the muxer, the writer fails or the server terminates
MuxTerminate ==
    /\ muxState # "closed"
    /\ comp' = [comp EXCEPT !.muxState = "closed",
                            !.muxWhy = "terminated",
                            !.muxPending = FALSE]
    /\ UNCHANGED coreVars

NextMux ==
    \/ MuxTime
    \/ MuxReady
    \/ MuxRequest
    \/ MuxCloseCheck
    \/ MuxTerminate

InitMux ==
    /\ PathInit
    /\ conf = [source |-> "publisher", sourceOnDemand |-> FALSE,
               runOnDemand |-> FALSE, disablePublisherOverride |-> FALSE,
               fallback |-> "", regexp |-> FALSE, runOnReady |-> TRUE]
    /\ \E alwaysRemux \in BOOLEAN, phase \in 0 .. TicksPerSecond - 1 :
         comp = MuxIdle(alwaysRemux, phase)

SpecMux == InitMux /\ [][NextMux]_vars

\* hlsMuxer.handleRequest: the requests ask for the playlist, which the muxer
\* has
handleRequest(q) == StatusOK

\* the requests of the queue have received their response
answerQueued(pc, queue) ==
    [q \in HlsRequests |-> IF q \in SeqToSet(queue) THEN "answered" ELSE pc[q]]

\* for _, req := range m.requests { req.Res <- ... }: one response per entry
\* of the queue
RECURSIVE sendQueued(_, _, _)
sendQueued(answers, queue, status) ==
    IF queue = <<>> THEN answers
    ELSE sendQueued([answers EXCEPT ![Head(queue)] = Append(@, status[Head(queue)])],
                    Tail(queue), status)

\* hlsMuxer.close, or the context of the HLS server is cancelled
MuxCtxCancel ==
    /\ ~muxCtxDone
    /\ comp' = [comp EXCEPT !.muxCtxDone = TRUE]
    /\ UNCHANGED coreVars

\* case <-m.ctx.Done(): innerCtxCancel(), then run waits on innerErr
MuxRunCtxDone ==
    /\ runPc = "select"
    /\ muxCtxDone
    /\ comp' = [comp EXCEPT !.innerCtxDone = TRUE, !.runPc = "waitInner"]
    /\ UNCHANGED coreVars

\* case req := <-m.request
MuxRunRequest(q) ==
    /\ runPc = "select"
    /\ reqPc[q] = "sending"
    /\ comp' = IF isReady
               THEN [comp EXCEPT !.reqPc[q] = "answered",
                                 !.reqAnswers[q] = Append(@, handleRequest(q))]
               ELSE [comp EXCEPT !.reqPc[q] = "queued",
                                 !.muxRequests = Append(@, q)]
    /\ UNCHANGED coreVars

\* case <-innerReady: the send of runInner and the receive of run meet
MuxRunInnerReady ==
    /\ runPc = "select"
    /\ innerPc = "sendReady"
    /\ comp' = [comp EXCEPT
                  !.isReady = TRUE,
                  !.reqPc = answerQueued(reqPc, muxRequests),
                  !.reqAnswers = sendQueued(reqAnswers, muxRequests,
                                           [x \in HlsRequests |-> handleRequest(x)]),
                  !.muxRequests = <<>>,
                  !.innerPc = "streaming"]
    /\ UNCHANGED coreVars

\* case err := <-innerErr: innerCtxCancel() and the loop is left
MuxRunInnerErr ==
    /\ runPc = "select"
    /\ innerPc = "sendErr"
    /\ comp' = [comp EXCEPT !.innerCtxDone = TRUE, !.runPc = "exit",
                            !.innerPc = "done"]
    /\ UNCHANGED coreVars

\* <-innerErr after the cancellation
MuxRunWaitInner ==
    /\ runPc = "waitInner"
    /\ innerPc = "sendErr"
    /\ comp' = [comp EXCEPT !.runPc = "exit", !.innerPc = "done"]
    /\ UNCHANGED coreVars

\* the part of run after the loop: m.ctxCancel(), 404 to the requests that
\* wait in m.requests, m.parent.onMuxerClose(m)
MuxRunExit ==
    /\ runPc = "exit"
    /\ comp' = [comp EXCEPT
                  !.muxCtxDone = TRUE,
                  !.reqPc = answerQueued(reqPc, muxRequests),
                  !.reqAnswers = sendQueued(reqAnswers, muxRequests,
                                           [x \in HlsRequests |-> StatusNotFound]),
                  !.closeNotified = TRUE,
                  !.runPc = "done"]
    /\ UNCHANGED coreVars

\* runInner receives the reply of the path to its setup; it returns the error,
\* or an error of its own about the tracks, or goes on to innerReady <- struct{}{}
MuxInnerSetupReply(ok) ==
    /\ innerPc = "setup"
    /\ comp' = [comp EXCEPT !.innerPc = IF ok THEN "sendReady" ELSE "sendErr"]
    /\ UNCHANGED coreVars

\* the loop of runInner returns: the muxer was inactive, the writer failed
\* or innerCtx is done
MuxInnerReturn ==
    /\ innerPc = "streaming"
    /\ comp' = [comp EXCEPT !.innerPc = "sendErr"]
    /\ UNCHANGED coreVars

\* hlsMuxer.onRequest is called by the task of the HLS server, one request at
\* a time
MuxOnRequest(q) ==
    /\ reqPc[q] = "none"
    /\ \A x \in HlsRequests : reqPc[x] # "sending"
    /\ comp' = [comp EXCEPT !.reqPc[q] = "sending",
                            !.reqSentCancelled[q] = muxCtxDone]
    /\ UNCHANGED coreVars

\* case <-m.ctx.Done() of onRequest
MuxOnRequestCtxDone(q) ==
    /\ reqPc[q] = "sending"
    /\ muxCtxDone
    /\ comp' = [comp EXCEPT !.reqPc[q] = "answered",
                            !.reqAnswers[q] = Append(@, StatusNotFound)]
    /\ UNCHANGED coreVars

\* the steps of the two tasks of the muxer
MuxTaskStep ==
    \/ MuxRunCtxDone
    \/ MuxRunInnerReady
    \/ MuxRunInnerErr
    \/ MuxRunWaitInner
    \/ MuxRunExit
    \/ \E ok \in BOOLEAN : MuxInnerSetupReply(ok)
    \/ MuxInnerReturn

NextMuxRun ==
    \/ MuxCtxCancel
    \/ MuxTaskStep
    \/ \E q \in HlsRequests : MuxRunRequest(q)
    \/ \E q \in HlsRequests : MuxOnRequest(q)
    \/ \E q \in HlsRequests : MuxOnRequestCtxDone(q)

InitMuxRun ==
    /\ PathInit
    /\ conf = [source |-> "publisher", sourceOnDemand |-> FALSE,
               runOnDemand |-> FALSE, disablePublisherOverride |-> FALSE,
               fallback |-> "", regexp |-> FALSE, runOnReady |-> TRUE]
    /\ comp = MuxRunIdle

SpecMuxRun == InitMuxRun /\ [][NextMuxRun]_vars

\* s.mutex.RLock() of apiSessionsList and of apiSessionsKick
ApiRLock(a) ==
    /\ ~srvFatal
    /\ apiPc[a] = "idle"
    /\ ~rwWriter
    /\ \E id \in SessionIds :
         comp' = [comp EXCEPT
                    !.rwReaders = @ \cup {a},
                    !.apiPc[a] = "iterating",
                    !.apiTarget[a] = IF a \in KickCalls THEN id ELSE ""]
    /\ UNCHANGED coreVars

\* the loop of apiSessionsKick finds the session: se.close(),
\* delete(s.sessions, key), se.onClose().  A write to a map that another task
\* iterates is a data race: the runtime stops the process when it detects it
ApiKickDelete(a) ==
    /\ ~srvFatal
    /\ a \in KickCalls
    /\ apiPc[a] = "iterating"
    /\ apiTarget[a] \in srvSessions
    /\ \E fatal \in BOOLEAN :
         /\ fatal => \E b \in ApiCalls \ {a} : apiPc[b] = "iterating"
         /\ comp' = [comp EXCEPT
                       !.srvSessions = @ \ {apiTarget[a]},
                       !.apiPc[a] = "found",
                       !.srvFatal = fatal]
    /\ UNCHANGED coreVars

\* apiSessionsList and apiSessionsKick return: the deferred s.mutex.RUnlock()
ApiReturn(a) ==
    /\ ~srvFatal
    /\ \/ apiPc[a] = "found"
       \/ apiPc[a] = "iterating" /\ (a \in KickCalls => apiTarget[a] \notin srvSessions)
    /\ comp' = [comp EXCEPT !.rwReaders = @ \ {a}, !.apiPc[a] = "idle"]
    /\ UNCHANGED coreVars

\* s.mutex.Lock() of OnSessionOpen
OnSessionOpenLock(x) ==
    /\ ~srvFatal
    /\ cbPc[x] = "none"
    /\ ~rwWriter /\ rwReaders = {}
    /\ comp' = [comp EXCEPT !.rwWriter = TRUE, !.cbPc[x] = "opening"]
    /\ UNCHANGED coreVars

\* s.sessions[ctx.Session] = se, s.mutex.Unlock()
OnSessionOpenStore(x) ==
    /\ ~srvFatal
    /\ cbPc[x] = "opening"
    /\ comp' = [comp EXCEPT !.srvSessions = @ \cup {x}, !.rwWriter = FALSE,
                            !.cbPc[x] = "open"]
    /\ UNCHANGED coreVars

\* s.mutex.Lock() of OnSessionClose
OnSessionCloseLock(x) ==
    /\ ~srvFatal
    /\ cbPc[x] = "open"
    /\ ~rwWriter /\ rwReaders = {}
    /\ comp' = [comp EXCEPT !.rwWriter = TRUE, !.cbPc[x] = "closing"]
    /\ UNCHANGED coreVars

\* delete(s.sessions, ctx.Session), s.mutex.Unlock()
OnSessionCloseDelete(x) ==
    /\ ~srvFatal
    /\ cbPc[x] = "closing"
    /\ comp' = [comp EXCEPT !.srvSessions = @ \ {x}, !.rwWriter = FALSE,
                            !.cbPc[x] = "none"]
    /\ UNCHANGED coreVars

NextSrv ==
    \/ \E a \in ApiCalls : ApiRLock(a)
    \/ \E a \in ApiCalls : ApiKickDelete(a)
    \/ \E a \in ApiCalls : ApiReturn(a)
    \/ \E x \in SessionIds : OnSessionOpenLock(x)
    \/ \E x \in SessionIds : OnSessionOpenStore(x)
    \/ \E x \in SessionIds : OnSessionCloseLock(x)
    \/ \E x \in SessionIds : OnSessionCloseDelete(x)

InitSrv ==
    /\ PathInit
    /\ conf = [source |-> "publisher", sourceOnDemand |-> FALSE,
               runOnDemand |-> FALSE, disablePublisherOverride |-> FALSE,
               fallback |-> "", regexp |-> FALSE, runOnReady |-> TRUE]
    /\ comp = SrvIdle

SpecSrv == InitSrv /\ [][NextSrv]_vars

\* runInner logs "connecting" and starts the goroutine that calls DialRead
SrcDialStart ==
    /\ taskPc = "connect"
    /\ srcConnects < MaxConnects
    /\ comp' = [comp EXCEPT !.taskPc = "dialSelect",
                            !.srcDial = "running",
                            !.srcConnects = srcConnects + 1]
    /\ UNCHANGED coreVars

\* what runInner does once dialDone is received
afterDial(res) == IF res = "err" THEN afterRunInner(TRUE) ELSE "setReady"

\* DialRead returns; a task that waits in the select goes on
SrcDialDone(res) ==
    /\ srcDial = "running"
    /\ comp' = [comp EXCEPT
                  !.srcDial = res,
                  !.taskPc = IF taskPc = "dialWait" THEN afterDial(res)
                                                    ELSE taskPc]
    /\ UNCHANGED coreVars

\* the task reaches select { <-s.terminate; <-dialDone }: a case that is
\* ready is taken, any of them when both are; otherwise the task waits
SrcDialSelect ==
    /\ taskPc = "dialSelect"
    /\ \/ srcTerminated /\ comp' = [comp EXCEPT !.taskPc = afterRunInner(FALSE)]
       \/ srcDial \in {"ok", "err"}
            /\ comp' = [comp EXCEPT !.taskPc = afterDial(srcDial)]
       \/ ~srcTerminated /\ srcDial = "running"
            /\ comp' = [comp EXCEPT !.taskPc = "dialWait"]
    /\ UNCHANGED coreVars

\* s.parent.OnExtSourceSetReady
SrcSetReady ==
    /\ taskPc = "setReady"
    /\ comp' = [comp EXCEPT !.srcReady = TRUE, !.taskPc = "readSelect"]
    /\ UNCHANGED coreVars

\* the task reaches select { <-s.terminate; <-done }
SrcReadSelect ==
    /\ taskPc = "readSelect"
    /\ comp' = IF srcTerminated
               THEN [comp EXCEPT !.taskPc = afterRunInner(FALSE),
                                 !.srcReady = FALSE]
               ELSE [comp EXCEPT !.taskPc = "readWait"]
    /\ UNCHANGED coreVars

\* case err := <-done: the read fails; the deferred OnExtSourceSetNotReady
SrcReadError ==
    /\ taskPc = "readWait"
    /\ comp' = [comp EXCEPT !.taskPc = afterRunInner(TRUE), !.srcReady = FALSE]
    /\ UNCHANGED coreVars

\* the task reaches select { <-time.After(retryPause); <-s.terminate }
SrcPauseSelect ==
    /\ taskPc = "pauseSelect"
    /\ comp' = [comp EXCEPT
                  !.taskPc = IF srcTerminated THEN "exited" ELSE "pauseWait",
                  !.srcElapsed = 0]
    /\ UNCHANGED coreVars

\* a second of the pause passes
SrcTick ==
    /\ taskPc = "pauseWait"
    /\ srcElapsed < retryPause
    /\ comp' = [comp EXCEPT !.srcElapsed = srcElapsed + 1]
    /\ UNCHANGED coreVars

\* case <-time.After(retryPause): run calls runInner again
SrcPauseOver ==
    /\ taskPc = "pauseWait"
    /\ srcElapsed = retryPause
    /\ comp' = [comp EXCEPT !.taskPc = "connect"]
    /\ UNCHANGED coreVars

\* Source.Close, called by the path: a task that waits in a select takes
\* the terminate case
SrcClose ==
    /\ ~srcTerminated
    /\ comp' = [comp EXCEPT
                  !.srcTerminated = TRUE,
                  !.taskPc = IF taskPc \in {"dialWait", "readWait", "pauseWait"}
                             THEN "exited" ELSE taskPc,
                  !.srcReady = IF taskPc = "readWait" THEN FALSE ELSE srcReady]
    /\ UNCHANGED coreVars

NextTask ==
    \/ SrcDialStart
    \/ \E res \in {"ok", "err"} : SrcDialDone(res)
    \/ SrcDialSelect
    \/ SrcSetReady
    \/ SrcReadSelect
    \/ SrcReadError
    \/ SrcPauseSelect
    \/ SrcTick
    \/ SrcPauseOver
    \/ SrcClose

InitTask ==
    /\ PathInit
    /\ conf = [source |-> "static", sourceOnDemand |-> FALSE,
               runOnDemand |-> FALSE, disablePublisherOverride |-> FALSE,
               fallback |-> "", regexp |-> FALSE, runOnReady |-> TRUE]
    /\ comp = TaskIdle

SpecTask == InitTask /\ [][NextTask]_vars

\* a unit reaches the processor
H264Unit(au) ==
    /\ h264Pc = "idle"
    /\ comp' = [comp EXCEPT !.h264Pc = "unit", !.h264AU = au]
    /\ UNCHANGED coreVars

\* Process of a unit that comes as an access unit: the parameters are
\* updated from it, then it is remuxed
H264ProcessAU ==
    /\ h264Pc = "unit"
    /\ LET upd == updateTrackParametersFromNALUs(h264SPS, h264PPS, h264AU)
       IN comp' = [comp EXCEPT
                     !.h264SPS = upd[1],
                     !.h264PPS = upd[2],
                     !.h264Stored = upd,
                     !.h264Out = remuxAccessUnit(upd[1], upd[2], h264AU),
                     !.h264Pc = "done"]
    /\ UNCHANGED coreVars

\* Process of a unit that comes as RTP packets, the last of which carries
\* no parameter set: the access unit decoded from them is remuxed
H264ProcessRTP ==
    /\ h264Pc = "unit"
    /\ comp' = [comp EXCEPT
                  !.h264Stored = <<h264SPS, h264PPS>>,
                  !.h264Out = remuxAccessUnit(h264SPS, h264PPS, h264AU),
                  !.h264Pc = "done"]
    /\ UNCHANGED coreVars

\* the unit has been handed on; the processor waits for the next one
H264Return ==
    /\ h264Pc = "done"
    /\ comp' = [comp EXCEPT !.h264Pc = "idle",
                            !.h264AU = <<>>,
                            !.h264Out = <<>>,
                            !.h264Stored = <<h264SPS, h264PPS>>]
    /\ UNCHANGED coreVars

NextH264 ==
    \/ \E au \in AccessUnits : H264Unit(au)
    \/ H264ProcessAU
    \/ H264ProcessRTP
    \/ H264Return

InitH264 ==
    /\ PathInit
    /\ conf = [source |-> "publisher", sourceOnDemand |-> FALSE,
               runOnDemand |-> FALSE, disablePublisherOverride |-> FALSE,
               fallback |-> "", regexp |-> FALSE, runOnReady |-> TRUE]
    /\ \E sps \in {NoNALU, [hdr |-> 103, body |-> 4]},
          pps \in {NoNALU, [hdr |-> 104, body |-> 6]} :
         comp = H264Idle(sps, pps)

SpecH264 == InitH264 /\ [][NextH264]_vars

\* an RTP packet that carries nalus reaches the processor
H265Packet(nalus) ==
    /\ h265Pc = "idle"
    /\ comp' = [comp EXCEPT !.h265Pc = "packet",
                            !.h265Carried = nalus,
                            !.h265Payload = H265PayloadOf(nalus),
                            !.h265Before = <<h265VPS, h265SPS, h265PPS>>]
    /\ UNCHANGED coreVars

\* Process calls updateTrackParametersFromRTPPacket(pkt)
H265Update ==
    /\ h265Pc = "packet"
    /\ LET upd == h265UpdateFromRTPPacket(<<h265VPS, h265SPS, h265PPS>>, h265Payload)
       IN comp' = [comp EXCEPT !.h265VPS = upd[1],
                               !.h265SPS = upd[2],
                               !.h265PPS = upd[3],
                               !.h265Pc = "done"]
    /\ UNCHANGED coreVars

\* Process returns
H265Return ==
    /\ h265Pc = "done"
    /\ comp' = [comp EXCEPT !.h265Pc = "idle",
                            !.h265Carried = <<>>,
                            !.h265Payload = <<>>,
                            !.h265Before = <<h265VPS, h265SPS, h265PPS>>]
    /\ UNCHANGED coreVars

NextH265 ==
    \/ \E nalus \in H265Carriable : H265Packet(nalus)
    \/ H265Update
    \/ H265Return

InitH265 ==
    /\ PathInit
    /\ conf = [source |-> "publisher", sourceOnDemand |-> FALSE,
               runOnDemand |-> FALSE, disablePublisherOverride |-> FALSE,
               fallback |-> "", regexp |-> FALSE, runOnReady |-> TRUE]
    /\ \E vps \in {<<>>, <<64, 1, 10>>}, sps \in {<<>>, <<66, 1, 20>>},
          pps \in {<<>>, <<68, 1, 30>>} : comp = H265Idle(vps, sps, pps)

SpecH265 == InitH265 /\ [][NextH265]_vars

\* a static source that the path has closed while it was connecting calls
\* onSourceStaticSetReady all the same: its task does not look at the
\* termination between the end of the dial and the call, and goes on to read
SourceSetReadyLate(i) ==
    /\ Alive
    /\ srcPc[i] = "connecting"
    /\ i \in srcClosed
    /\ (source = StaticSource(i) => CanCreateStream)
    /\ LET s == IF Running THEN handleSourceStaticSetReady(St, i) ELSE St
       IN Commit([s EXCEPT !.srcPc[i] = "reading"], pubState, rdState,
                 [name |-> "sourceStaticSetReady", who |-> "source"])

NextLateSource ==
    \/ Next
    \/ \E i \in SrcIds : SourceSetReadyLate(i)

\* the static sources signal ready also after their close
SpecLateSource == Init /\ [][NextLateSource]_vars

\* the clients name any track in their SETUP
NextAnyTrack ==
    \/ Next
    \/ \E r \in Readers : ReaderSetupPlayAnyTrack(r)

SpecAnyTrack == Init /\ [][NextAnyTrack]_vars

TypeOK ==
    /\ conf \in Confs
    /\ sourceReady \in BOOLEAN
    /\ stream \in 0 .. MaxStreams
    /\ onDemandState \in {"initial", "waitingReady", "ready", "closing"}


----------------------------------------------------------------------------
\* properties

Registered(rd) == {r \in Readers : rd[r] # "none"}

\* the publisher sessions that announced with success, that the path has not
\* closed and that have not left: the publishers assigned to the path
AssignedPublishers == {p \in Publishers : pubState[p] # "initial" /\ p \notin closedP}

\* the path closed what its source slot held
SourceWasClosed ==
    /\ source.kind = "static" => source.src \in srcClosed'
    /\ source.kind = "pub" => source.pub \in closedP'

\* C1: at every instant at most one publisher is assigned to the path: a
\* publisher is never accepted while another one, not closed, still holds it.
C1_AtMostOnePublisher == Cardinality(AssignedPublishers) <= 1

\* C1 on the paths whose source is "publisher": there the property holds
C1_AtMostOnePublisherDynamic ==
    conf.source = "publisher" => Cardinality(AssignedPublishers) <= 1

\* C2: after each request handled by the path, sourceReady is true if and
\* only if the stream is set.
C2_ReadyIffStream == sourceReady <=> stream # 0

C2_Witness ==
    /\ lastOp.name = "publisherPause"
    /\ ~sourceReady /\ stream = 0
    /\ streamCount > 0 /\ streamCount \in streamsClosed

\* C3: an announce on a path that another publisher holds: without
\* disablePublisherOverride the incumbent is closed and removed (the path is
\* not ready any more) and the newcomer becomes the source; with it the
\* announce gets an error and the incumbent and the path stay as they were.
C3_PublisherOverride ==
    [][(/\ lastOp'.name = "publisherAnnounce"
        /\ Running
        /\ source.kind = "pub")
       => IF conf.disablePublisherOverride
          THEN /\ annRes'[lastOp'.who] = ErrRes(ErrAlreadyPublishing)
               /\ pubState'[lastOp'.who] = "initial"
               /\ UNCHANGED <<source, sourceReady, stream, readers, closedP,
                              closedR, onDemandState, streamsClosed>>
               /\ pubState'[source.pub] = pubState[source.pub]
          ELSE /\ annRes'[lastOp'.who] = OkRes
               /\ source.pub \in closedP'
               /\ source' = PubSource(lastOp'.who)
               /\ pubState'[lastOp'.who] = "prePublish"
               /\ ~sourceReady' /\ stream' = 0
               /\ (stream # 0 => stream \in streamsClosed')]_vars

\* the same on the paths whose source is "publisher": there the property holds
C3_PublisherOverrideDynamic ==
    [][(/\ lastOp'.name = "publisherAnnounce"
        /\ Running
        /\ conf.source = "publisher"
        /\ source.kind = "pub")
       => IF conf.disablePublisherOverride
          THEN /\ annRes'[lastOp'.who] = ErrRes(ErrAlreadyPublishing)
               /\ pubState'[lastOp'.who] = "initial"
               /\ UNCHANGED <<source, sourceReady, stream, readers, closedP,
                              closedR, onDemandState, streamsClosed>>
               /\ pubState'[source.pub] = pubState[source.pub]
          ELSE /\ annRes'[lastOp'.who] = OkRes
               /\ source.pub \in closedP'
               /\ source' = PubSource(lastOp'.who)
               /\ pubState'[lastOp'.who] = "prePublish"
               /\ ~sourceReady' /\ stream' = 0
               /\ (stream # 0 => stream \in streamsClosed')]_vars

C3_Witness ==
    /\ lastOp.name = "publisherAnnounce"
    /\ annRes[lastOp.who] = OkRes
    /\ source = PubSource(lastOp.who)
    /\ closedP # {}
    /\ streamsClosed # {}

\* C4: an announce on a path configured with a static source is rejected in
\* every state of the path, and a publisher never becomes its source.
C4_StaticRejectsPublishers ==
    hasStaticSource => /\ source.kind # "pub"
                       /\ \A p \in Publishers : annRes[p] # OkRes

\* C5: when the ready timer fires in WaitingReady, every queued describe and
\* setup gets the timeout error, the source is closed and the state is Initial.
C5_ReadyTimeout ==
    [][(/\ lastOp'.name = "onDemandReadyTimer"
        /\ onDemandState = "waitingReady")
       => /\ \A d \in SeqToSet(describeRequests) : descRes'[d] = ErrRes(ErrTimeout)
          /\ \A r \in SeqToSet(setupPlayRequests) : setupRes'[r] = ErrRes(ErrTimeout)
          /\ describeRequests' = <<>> /\ setupPlayRequests' = <<>>
          /\ SourceWasClosed
          /\ source' = NoSource
          /\ ~onDemandCmd'
          /\ ~sourceReady'
          /\ ~readyTimer'
          /\ onDemandState' = "initial"]_vars

C5_Witness ==
    /\ lastOp.name = "onDemandReadyTimer"
    /\ onDemandState = "initial"
    /\ \E d \in Describers : descRes[d] = ErrRes(ErrTimeout)
    /\ \E r \in Readers : setupRes[r] = ErrRes(ErrTimeout)
    /\ srcClosed # {}

\* C6: a describe or setup on an on-demand path that is Initial and not ready
\* starts the source (static source task or runOnDemand command), arms the
\* ready timer, queues the request unanswered and moves to WaitingReady; and
\* the source or the command is started by no other step.
C6_OnDemandStart ==
    [][/\ (/\ lastOp'.name \in {"describe", "readerSetupPlay"}
           /\ Running
           /\ isOnDemand
           /\ onDemandState = "initial"
           /\ ~sourceReady)
          => /\ IF hasStaticSource
                THEN /\ srcCount' = srcCount + 1
                     /\ source' = StaticSource(srcCount')
                     /\ srcPc[srcCount'] = "none"
                     /\ srcPc'[srcCount'] = "connecting"
                ELSE onDemandCmd'
             /\ readyTimer'
             /\ onDemandState' = "waitingReady"
             /\ \A d \in Describers : descRes'[d] = NoRes
             /\ \A r \in Readers : setupRes'[r] = NoRes
             /\ IF lastOp'.name = "describe"
                THEN /\ describeRequests' = Append(describeRequests, lastOp'.who)
                     /\ setupPlayRequests' = setupPlayRequests
                ELSE /\ setupPlayRequests' = Append(setupPlayRequests, lastOp'.who)
                     /\ describeRequests' = describeRequests
       /\ (isOnDemand /\ (srcCount' # srcCount \/ (onDemandCmd' /\ ~onDemandCmd)))
          => /\ lastOp'.name \in {"describe", "readerSetupPlay"}
             /\ onDemandState = "initial"
             /\ ~sourceReady]_vars

C6_Witness ==
    /\ lastOp.name = "readerSetupPlay"
    /\ onDemandState = "waitingReady"
    /\ setupPlayRequests = <<lastOp.who>>
    /\ readyTimer
    /\ source.kind = "static"
    /\ srcPc[source.src] = "connecting"

\* C7: when the source of an on-demand path signals ready in WaitingReady,
\* every queued describe and setup is answered with the new stream, the ready
\* timer is cancelled, and the path is Ready if a reader is registered then,
\* else the close timer is armed and the path is Closing.
C7_OnDemandReady ==
    [][(/\ isOnDemand
        /\ onDemandState = "waitingReady"
        /\ lastOp'.name \in {"publisherRecord", "sourceStaticSetReady"}
        /\ ~sourceReady /\ sourceReady')
       => /\ stream' = streamCount + 1 /\ streamCount' = streamCount + 1
          /\ stream' \notin streamsClosed'
          /\ \A d \in SeqToSet(describeRequests) : descRes'[d] = StreamRes(stream')
          /\ \A r \in SeqToSet(setupPlayRequests) :
                setupRes'[r] = StreamRes(stream') /\ readers'[r] = "preplay"
          /\ describeRequests' = <<>> /\ setupPlayRequests' = <<>>
          /\ ~readyTimer'
          /\ IF Registered(readers') # {}
             THEN onDemandState' = "ready" /\ ~closeTimer'
             ELSE onDemandState' = "closing" /\ closeTimer']_vars

C7_Witness ==
    /\ lastOp.name = "sourceStaticSetReady"
    /\ onDemandState = "ready"
    /\ \E d \in Describers : descRes[d] = StreamRes(stream)
    /\ \E r \in Readers : setupRes[r] = StreamRes(stream)
    /\ stream # 0

\* C8: when the last reader of an on-demand path in Ready leaves, the close
\* timer is armed and the path moves to Closing.
C8_LastReaderLeaves ==
    [][(/\ isOnDemand
        /\ onDemandState = "ready"
        /\ lastOp'.name = "readerRemove"
        /\ Registered(readers) # {}
        /\ Registered(readers') = {})
       => /\ closeTimer'
          /\ onDemandState' = "closing"
          /\ sourceReady' /\ stream' = stream /\ source' = source]_vars

C8_Witness ==
    /\ lastOp.name = "readerRemove"
    /\ onDemandState = "closing"
    /\ closeTimer
    /\ Registered(readers) = {}
    /\ sourceReady

\* C9: when a setup is accepted on an on-demand path in Closing, the close
\* timer is cancelled and the path is Ready again: the source stays.
C9_ReaderCancelsClose ==
    [][(/\ isOnDemand
        /\ onDemandState = "closing"
        /\ lastOp'.name = "readerSetupPlay"
        /\ setupRes'[lastOp'.who].kind = "stream")
       => /\ ~closeTimer'
          /\ onDemandState' = "ready"
          /\ readers'[lastOp'.who] = "preplay"
          /\ sourceReady' /\ stream' = stream /\ source' = source
          /\ srcClosed' = srcClosed /\ closedP' = closedP]_vars

C9_Witness ==
    /\ lastOp.name = "readerSetupPlay"
    /\ setupRes[lastOp.who].kind = "stream"
    /\ isOnDemand
    /\ onDemandState = "ready"
    /\ ~closeTimer

\* C10: when the close timer fires in Closing, the source is closed, the
\* stream unset, sourceReady false, the state Initial, and every static source
\* task of the path has terminated.
C10_CloseTimerJoins ==
    [][(/\ lastOp'.name = "onDemandCloseTimer"
        /\ onDemandState = "closing")
       => /\ SourceWasClosed
          /\ source' = NoSource
          /\ stream' = 0 /\ ~sourceReady'
          /\ onDemandState' = "initial"
          /\ \A i \in SrcIds : srcPc'[i] \in {"none", "done"}]_vars

\* the part of it that holds: the source is asked to close, the stream is
\* closed and unset, sourceReady is false and the state is Initial; the static
\* source task is joined by the tail of run() only
C10_CloseTimerSignals ==
    [][(/\ lastOp'.name = "onDemandCloseTimer"
        /\ onDemandState = "closing")
       => /\ SourceWasClosed
          /\ source' = NoSource
          /\ stream' = 0 /\ ~sourceReady'
          /\ (stream # 0 => stream \in streamsClosed')
          /\ ~closeTimer'
          /\ onDemandState' = "initial"]_vars

\* the state after such a step in which the closed source still runs
C10_TaskStillRunning ==
    /\ lastOp.name = "onDemandCloseTimer"
    /\ onDemandState = "initial"
    /\ source = NoSource
    /\ ~sourceReady
    /\ \E i \in SrcIds : i \in srcClosed /\ srcPc[i] = "reading"

----------------------------------------------------------------------------
\* describe

\* the reply rules (4) and (5) of a describe that no earlier rule answers
DescribeFallbackOrNone ==
    IF conf.fallback # ""
    THEN descRes'[lastOp'.who] =
           RedirectRes(IF IsInternalRef(conf.fallback)
                       THEN URLString(lastOp'.url.scheme, lastOp'.url.user,
                                      lastOp'.url.host, conf.fallback)
                       ELSE conf.fallback)
    ELSE descRes'[lastOp'.who] = ErrRes(ErrNoOnePublishing)

\* the describe is queued without an answer
DescribeQueued ==
    /\ descRes'[lastOp'.who] = NoRes
    /\ describeRequests' = Append(describeRequests, lastOp'.who)

\* C11: a describe is answered by the first rule that applies: redirect
\* source, ready source, on-demand path in Initial (start and queue),
\* fallback (an internal reference rewritten with the URL of the caller),
\* NoOnePublishing.
C11_DescribeOrder ==
    [][(lastOp'.name = "describe" /\ Running)
       => IF source = RedirectSource
          THEN descRes'[lastOp'.who] = RedirectRes(ConfSourceRedirect)
          ELSE IF sourceReady
          THEN descRes'[lastOp'.who] = StreamRes(stream)
          ELSE IF isOnDemand /\ onDemandState = "initial"
          THEN DescribeQueued /\ onDemandState' = "waitingReady"
          ELSE DescribeFallbackOrNone]_vars

\* C11 amended: rule (3) applies to an on-demand path in any state: the
\* describe is queued, and the source is started (WaitingReady) if the state
\* is Initial; the fallback and NoOnePublishing are for paths not on demand.
C11_DescribeOrderQueued ==
    [][(lastOp'.name = "describe" /\ Running)
       => IF source = RedirectSource
          THEN descRes'[lastOp'.who] = RedirectRes(ConfSourceRedirect)
          ELSE IF sourceReady
          THEN descRes'[lastOp'.who] = StreamRes(stream)
          ELSE IF isOnDemand
          THEN /\ DescribeQueued
               /\ onDemandState' = IF onDemandState = "initial"
                                   THEN "waitingReady" ELSE onDemandState
          ELSE DescribeFallbackOrNone]_vars

C11_Witness ==
    /\ lastOp.name = "describe"
    /\ conf.fallback # ""
    /\ onDemandState = "waitingReady"
    /\ describeRequests = <<lastOp.who>>
    /\ Len(setupPlayRequests) > 0

\* the source of the path is producing: a publisher that is recording, or a
\* static source that is reading
SourceProducing ==
    \/ /\ source.kind = "pub"
       /\ pubState[source.pub] = "publish"
       /\ source.pub \notin closedP
    \/ /\ source.kind = "static"
       /\ srcPc[source.src] = "reading"

\* C12: a describe reply that carries a stream carries the current stream of
\* the path, which is open, and is produced while the source is ready and its
\* publisher is recording; this covers the immediate replies and the replies
\* to the describes queued during an on-demand start.
C12_DescribeStreamReady ==
    \A d \in Describers :
        descRes[d].kind = "stream"
            => /\ sourceReady
               /\ descRes[d].stream = stream
               /\ stream # 0
               /\ stream \notin streamsClosed
               /\ SourceProducing

C12_Witness ==
    /\ lastOp.name = "publisherRecord"
    /\ \E d \in Describers : descRes[d] = StreamRes(stream)
    /\ pubState[lastOp.who] = "publish"

----------------------------------------------------------------------------
\* going not ready

\* what sourceSetNotReady leaves behind: no reader, every reader that was
\* registered closed, the stream closed and unset, runOnReady stopped
NotReadyEffects ==
    /\ \A r \in Readers : readers'[r] = "none"
    /\ \A r \in Registered(readers) : r \in closedR'
    /\ nonRTSPReaders' = {}
    /\ stream \in streamsClosed'
    /\ stream' = 0
    /\ ~onReadyCmd'

\* the path closed what its source slot held, or, when the step is the
\* removal of a publisher that has closed itself, that session is gone
SourceClosedOrGone ==
    /\ source.kind = "static" => source.src \in srcClosed'
    /\ source.kind = "pub" =>
          \/ source.pub \in closedP'
          \/ lastOp' = [name |-> "publisherRemove", who |-> source.pub]

\* what the on-demand close path adds on an on-demand path past Initial
OnDemandCloseEffects ==
    (isOnDemand /\ onDemandState # "initial")
        => /\ onDemandState' = "initial"
           /\ SourceClosedOrGone
           /\ source' # source
           /\ ~onDemandCmd'
           /\ ~readyTimer' /\ ~closeTimer'

\* C13: when a path goes not ready, its readers are removed and closed, the
\* stream is closed and unset and runOnReady is stopped; an on-demand path
\* past Initial goes through the on-demand close path, which closes the
\* source and the command and returns to Initial.
C13_GoingNotReady ==
    [][(sourceReady /\ ~sourceReady')
       => NotReadyEffects /\ OnDemandCloseEffects]_vars

\* C13 amended: the same for every transition but the one of the shutdown:
\* when its context is cancelled the path task makes the bare not-ready
\* transition and leaves the on-demand state as it is.
C13_GoingNotReadyRunning ==
    [][(sourceReady /\ ~sourceReady')
       => /\ NotReadyEffects
          /\ lastOp'.name # "close" => OnDemandCloseEffects]_vars

C13_Witness ==
    /\ lastOp.name = "publisherPause"
    /\ conf.runOnDemand
    /\ onDemandState = "initial"
    /\ ~sourceReady /\ stream = 0
    /\ closedR # {}
    /\ ~onDemandCmd

----------------------------------------------------------------------------
\* lifecycle of the streams

\* the streams created and not closed yet
OpenStreams == {i \in 1 .. streamCount : i \notin streamsClosed}

\* C14: a stream is created exactly when the source becomes ready and closed
\* when the path goes not ready; at most one stream is open, the open stream
\* is the current one, and it is open only while its publisher is the source
\* of the path and is ready.
C14_StreamLifecycle ==
    [][/\ (streamCount' # streamCount) <=> (~sourceReady /\ sourceReady')
       /\ streamCount' # streamCount
             => stream' = streamCount' /\ streamCount' = streamCount + 1
       /\ (sourceReady /\ ~sourceReady') => stream \in streamsClosed'
       /\ (source' # source /\ stream # 0) => stream \in streamsClosed'
       /\ Cardinality(OpenStreams') <= 1
       /\ OpenStreams' \subseteq {stream'}
       /\ stream' # 0 => stream' \in OpenStreams'
       /\ OpenStreams' # {} => sourceReady' /\ SourceProducing']_vars

C14_Witness ==
    /\ streamCount = 2
    /\ streamsClosed = {1}
    /\ stream = 2
    /\ source.kind = "pub"
    /\ closedP # {}

----------------------------------------------------------------------------
\* shutdown

\* the fields of the path that only its loop writes
loopVars == <<source, sourceReady, stream, readers, describeRequests,
              setupPlayRequests, onDemandState, onReadyCmd, readyTimer,
              closeTimer, nonRTSPReaders, streamCount, streamsClosed,
              srcCount, srcClosed, closedR, closedP>>

\* C15: when the context of the path is cancelled the path task answers
\* every queued describe and setup with "terminated", makes the source not
\* ready (its readers are closed), closes the source and the hook commands
\* and leaves its loop for good; a request made after that returns, with
\* "terminated" when it expects an answer, and changes nothing.
C15_Shutdown ==
    [][/\ lastOp'.name = "close"
          => /\ ~crashed'
             /\ \A d \in SeqToSet(describeRequests) :
                    descRes'[d] = ErrRes(ErrTerminated)
             /\ \A r \in SeqToSet(setupPlayRequests) :
                    setupRes'[r] = ErrRes(ErrTerminated)
             /\ ~sourceReady' /\ stream' = 0
             /\ stream # 0 => stream \in streamsClosed'
             /\ \A r \in Readers : readers'[r] = "none"
             /\ \A r \in Registered(readers) : r \in closedR'
             /\ SourceWasClosed
             /\ \A i \in 1 .. srcCount : i \in srcClosed'
             /\ ~onReadyCmd'
             /\ ~readyTimer' /\ ~closeTimer'
             /\ pathPc' \in {"joining", "closed"}
             /\ pathPc' = "closed" => ~onDemandCmd'
       /\ lastOp'.name = "joined"
          => /\ \A i \in SrcIds : srcPc[i] \in {"none", "done"}
             /\ pathPc' = "closed" /\ ~onDemandCmd'
       /\ ~Running
          => /\ pathPc' # "running"
             /\ UNCHANGED loopVars
             /\ ~crashed'
             /\ lastOp'.name = "describe"
                   => descRes'[lastOp'.who] = ErrRes(ErrTerminated)
             /\ lastOp'.name = "readerSetupPlay"
                   => setupRes'[lastOp'.who] = ErrRes(ErrTerminated)
             /\ lastOp'.name = "publisherAnnounce"
                   => annRes'[lastOp'.who] = ErrRes(ErrTerminated)
             /\ lastOp'.name = "publisherRecord"
                   => recRes'[lastOp'.who] = ErrRes(ErrTerminated)]_vars

C15_Witness ==
    /\ lastOp.name = "readerSetupPlay"
    /\ pathPc = "joining"
    /\ setupRes[lastOp.who] = ErrRes(ErrTerminated)
    /\ \E i \in SrcIds : i \in srcClosed /\ srcPc[i] = "connecting"
    /\ Len(describeRequests) > 0

----------------------------------------------------------------------------
\* destruction of a path that is not in use

\* the path comes from a regular expression and has no source, no reader and
\* no pending request
NotInUse ==
    /\ conf.regexp
    /\ source = NoSource
    /\ Registered(readers) = {}
    /\ describeRequests = <<>>
    /\ setupPlayRequests = <<>>

\* C16: outside shutdown, after each request the path task has exited if and
\* only if the path comes from a regular expression and has no source, no
\* reader and no pending request.
C16_DestroyedIffNotInUse ==
    [][(Running /\ ~crashed' /\ lastOp'.name # "close")
       => (pathPc' # "running" <=> NotInUse')]_vars

\* the half of it that holds: a path is destroyed only when it is not in use
C16_DestroyedOnlyNotInUse ==
    [][(Running /\ ~crashed' /\ lastOp'.name # "close")
       => (pathPc' # "running" => NotInUse')]_vars

----------------------------------------------------------------------------
\* setup on a path that is not ready

\* the setup is queued without an answer
SetupQueued ==
    /\ setupRes'[lastOp'.who] = NoRes
    /\ setupPlayRequests' = Append(setupPlayRequests, lastOp'.who)
    /\ readers'[lastOp'.who] = readers[lastOp'.who]

\* a held setup leaves the queue with an answer only
HeldSetupsAnswered ==
    \A r \in SeqToSet(setupPlayRequests) :
        \/ r \in SeqToSet(setupPlayRequests') /\ Running'
        \/ setupRes'[r].kind \in {"stream", "err"}

\* C17: a setup on a path that is not ready follows the policy of describe:
\* it is held as a pending request on an on-demand path, else redirected to
\* the fallback if there is one.
C17_SetupNotReadyPolicy ==
    [][/\ (lastOp'.name = "readerSetupPlay" /\ Running /\ ~sourceReady)
          => IF isOnDemand THEN SetupQueued
             ELSE IF conf.fallback # ""
             THEN setupRes'[lastOp'.who].kind = "redirect"
             ELSE setupRes'[lastOp'.who] = ErrRes(ErrNoOnePublishing)
       /\ (Running /\ ~crashed') => HeldSetupsAnswered]_vars

\* C17 amended: a setup on a path that is not ready is held as a pending
\* request on an on-demand path (and answered when the source becomes ready,
\* times out or the path terminates); on any other path it gets
\* NoOnePublishing, with or without a fallback: a setup is never redirected.
C17_SetupNotReady ==
    [][/\ (lastOp'.name = "readerSetupPlay" /\ Running /\ ~sourceReady)
          => IF isOnDemand THEN SetupQueued
             ELSE setupRes'[lastOp'.who] = ErrRes(ErrNoOnePublishing)
       /\ (Running /\ ~crashed') => HeldSetupsAnswered
       /\ \A r \in Readers : setupRes'[r].kind # "redirect"]_vars

C17_Witness ==
    /\ lastOp.name = "readerSetupPlay"
    /\ conf.fallback # ""
    /\ ~sourceReady
    /\ setupRes[lastOp.who] = ErrRes(ErrNoOnePublishing)

----------------------------------------------------------------------------
\* no one is publishing

\* the path has no ready source, is not started on demand and has no fallback
NothingToServe ==
    /\ Running
    /\ ~sourceReady
    /\ ~isOnDemand
    /\ conf.fallback = ""

\* C18: a describe or a setup on a path with no ready publisher, no fallback
\* and no on-demand start gets NoOnePublishing; the RTSP session answers the
\* setup with 404 Not Found, is not registered as a reader and keeps its
\* state; 404 is the answer to that error only.
C18_NoOnePublishing ==
    [][/\ (lastOp'.name = "describe" /\ NothingToServe /\ source # RedirectSource)
          => descRes'[lastOp'.who] = ErrRes(ErrNoOnePublishing)
       /\ (lastOp'.name = "readerSetupPlay" /\ NothingToServe)
          => /\ setupRes'[lastOp'.who] = ErrRes(ErrNoOnePublishing)
             /\ readers' = readers
             /\ rdState' = rdState
             /\ lastOp'.who \in RTSPReaders
                   => setupStatus'[lastOp'.who] = StatusNotFound
       /\ \A r \in Readers :
             setupStatus'[r] = StatusNotFound
                => setupRes'[r] = ErrRes(ErrNoOnePublishing)]_vars

C18_Witness ==
    /\ lastOp = [name |-> "readerSetupPlay", who |-> "rRtsp"]
    /\ setupStatus["rRtsp"] = StatusNotFound
    /\ rdState["rRtsp"] = "initial"
    /\ readers["rRtsp"] = "none"
    /\ source.kind = "pub"

----------------------------------------------------------------------------
\* override of a recording publisher

\* the step is an announce that finds another publisher recording on a path
\* that allows the override
OverridesRecording ==
    /\ lastOp'.name = "publisherAnnounce"
    /\ Running
    /\ ~conf.disablePublisherOverride
    /\ source.kind = "pub"
    /\ sourceReady

\* the readers registered in the path
Attached == {r \in Readers : readers[r] # "none"}

\* the incumbent is closed, the newcomer is the source, and the readers that
\* were attached are all re-attached to a new open stream or all removed and
\* closed; the old stream is closed and has no reader left
OverrideEffects ==
    /\ source.pub \in closedP'
    /\ source' = PubSource(lastOp'.who)
    /\ annRes'[lastOp'.who] = OkRes
    /\ \/ \A r \in Attached : r \in closedR' /\ readers'[r] = "none"
       \/ /\ stream' \notin (streamsClosed' \cup {0, stream})
          /\ \A r \in Attached : r \notin closedR' /\ readers'[r] # "none"
    /\ stream \in streamsClosed'
    /\ stream' # stream
    /\ \A r \in Readers : readers'[r] # "none" => stream' \notin {0, stream}

\* C19: with disablePublisherOverride false, an announce on a path on which
\* another publisher is recording closes that publisher and makes the
\* newcomer the publisher; the attached readers are all re-attached to the
\* new stream or all closed, none stays registered against the old stream.
C19_OverrideWhileRecording ==
    [][OverridesRecording => OverrideEffects]_vars

\* the same on the paths whose configured source is a publisher
C19_OverrideWhileRecordingDynamic ==
    [][(OverridesRecording /\ ~hasStaticSource) => OverrideEffects]_vars

C19_OverrideSeen ==
    /\ lastOp.name = "publisherAnnounce"
    /\ annRes[lastOp.who] = OkRes
    /\ source = PubSource(lastOp.who)
    /\ closedP # {}
    /\ closedR = Readers
    /\ \A r \in Readers : rdState[r] \in {"preRead", "read"}
    /\ streamsClosed # {}

----------------------------------------------------------------------------
\* states of the RTSP sessions

\* the state changes of a reading session, with the request that makes them:
\* a SETUP that got a stream, a PLAY, a PAUSE
ReaderStateChange(r) ==
    \/ /\ rdState[r] \in {"initial", "preRead"}
       /\ rdState'[r] = "preRead"
       /\ setupRes'[r].kind = "stream"
    \/ /\ rdState[r] = "preRead"
       /\ rdState'[r] = "read"
       /\ lastOp' = [name |-> "readerPlay", who |-> r]
    \/ /\ rdState[r] = "read"
       /\ rdState'[r] = "preRead"
       /\ lastOp' = [name |-> "readerPause", who |-> r]

\* the state changes of a publishing session: an accepted ANNOUNCE, an
\* accepted RECORD, a PAUSE
PublisherStateChange(p) ==
    \/ /\ pubState[p] = "initial"
       /\ pubState'[p] = "prePublish"
       /\ lastOp' = [name |-> "publisherAnnounce", who |-> p]
       /\ annRes'[p] = OkRes
    \/ /\ pubState[p] = "prePublish"
       /\ pubState'[p] = "publish"
       /\ lastOp' = [name |-> "publisherRecord", who |-> p]
       /\ recRes'[p].kind = "stream"
    \/ /\ pubState[p] = "publish"
       /\ pubState'[p] = "prePublish"
       /\ lastOp' = [name |-> "publisherPause", who |-> p]

\* C20: the state of an RTSP session changes only from Initial to PreRecord
\* on ANNOUNCE, from Initial or PrePlay to PrePlay on a reader SETUP, from
\* PrePlay to Play on PLAY, from PreRecord to Record on RECORD and from Play
\* to PrePlay and Record to PreRecord on PAUSE (PrePublish, Publish, PreRead
\* and Read in the code); the close of a session ends it.
C20_SessionTransitions ==
    [][/\ \A r \in RTSPReaders :
            (rdState'[r] # rdState[r]
                /\ lastOp' # [name |-> "readerRemove", who |-> r])
               => ReaderStateChange(r)
       /\ \A p \in Publishers :
            (pubState'[p] # pubState[p]
                /\ lastOp' # [name |-> "publisherRemove", who |-> p])
               => PublisherStateChange(p)]_vars

C20_Witness ==
    /\ \E r \in RTSPReaders :
         /\ lastOp = [name |-> "readerPause", who |-> r]
         /\ rdState[r] = "preRead"
    /\ \E p \in Publishers : pubState[p] = "publish"

----------------------------------------------------------------------------
\* close of a session

\* session x has no role on the path and no running command
Released(x) ==
    /\ x \in RTSPReaders => readers[x] = "none" /\ ~onReadCmd[x]
    /\ x \in Publishers => source # PubSource(x)

\* C21: once the close of an RTSP session has been processed (the session is
\* out of the registry of the server), the session is neither a reader of the
\* path nor its publisher and its command is closed.
C21_ClosedSessionReleased ==
    (Running /\ Alive)
        => \A x \in RTSPReaders \cup Publishers : x \notin sessions => Released(x)

\* the step that handles the close of a session releases its role
C21_CloseReleases ==
    [][(lastOp'.name \in {"readerRemove", "publisherRemove", "sessionClose"}
          /\ lastOp'.who \in RTSPReaders \cup Publishers
          /\ pathPc' = "running")
       => /\ lastOp'.who \notin sessions'
          /\ lastOp'.who \in RTSPReaders
               => readers'[lastOp'.who] = "none" /\ ~onReadCmd'[lastOp'.who]
          /\ lastOp'.who \in Publishers
               => source' # PubSource(lastOp'.who)]_vars

----------------------------------------------------------------------------
\* pause

\* C22: a PAUSE moves a session from Play to PrePlay and from Record to
\* PreRecord (Read to PreRead, Publish to PrePublish in the code) and closes
\* the command of the session: the runOnRead command of a reader, the
\* runOnReady command of the path for the publisher that is its source.
C22_PauseClosesHook ==
    [][/\ lastOp'.name = "readerPause"
          => /\ rdState[lastOp'.who] = "read"
             /\ rdState'[lastOp'.who] = "preRead"
             /\ ~onReadCmd'[lastOp'.who]
       /\ lastOp'.name = "publisherPause"
          => /\ pubState[lastOp'.who] = "publish"
             /\ pubState'[lastOp'.who] = "prePublish"
             /\ source = PubSource(lastOp'.who) => ~onReadyCmd' /\ ~sourceReady'
             /\ ~(onReadyCmd' /\ source' = PubSource(lastOp'.who))]_vars

C22_Witness ==
    /\ lastOp.name = "readerPause"
    /\ lastOp.who \in RTSPReaders
    /\ rdState[lastOp.who] = "preRead"
    /\ ~onReadCmd[lastOp.who]
    /\ readers[lastOp.who] = "preplay"
    /\ \E p \in Publishers : pubState[p] = "prePublish" /\ source = PubSource(p)
    /\ ~onReadyCmd
    /\ streamsClosed # {}

----------------------------------------------------------------------------
\* fan-out

\* the step is a write that finds the next slot of reader r still unread
Overflows(r) ==
    /\ fanWritten' = fanWritten + 1
    /\ r \in fanMa
    /\ ringBuffer[r].buffer[rbNextSlot(ringBuffer[r])] # 0

\* C23: a reader whose queue overflows is force-closed, and only that reader:
\* the others stay; the write of the publisher is never held back.
C23_OverflowClosesReader ==
    [][/\ \A r \in FanReaders : Overflows(r) => r \notin fanMa' /\ r \in fanLeft'
       /\ \A r \in FanReaders :
            (fanWritten' = fanWritten + 1 /\ r \in fanMa /\ ~Overflows(r))
               => r \in fanMa']_vars

\* the write is possible whatever the ring buffers of the readers hold
C23_WriterNeverBlocked ==
    fanWritten < MaxPackets => ENABLED FanWrite

\* C24: every reader receives the packets of the publisher in the order in
\* which they were written: some may be missing, none comes after a later one.
C24_OrderPreserved ==
    \A r \in FanReaders :
        \A i, j \in 1 .. Len(fanReceived[r]) :
            i < j => fanReceived[r][i] < fanReceived[r][j]

----------------------------------------------------------------------------
\* authentication failures

----------------------------------------------------------------------------
\* the HLS server

MuxersOf(muxers, name) == {m \in muxers : m.name = name}

\* C26: the HLS server holds at most one muxer per path name; a muxer is
\* created on an HTTP request for its path, or on a path-source-ready
\* notification for its path when hlsAlwaysRemux is true, and never otherwise.
C26_OneMuxerPerPath ==
    [][/\ \A name \in HlsNames : Cardinality(MuxersOf(hlsMuxers', name)) <= 1
       /\ \A m \in hlsMuxers' \ hlsMuxers :
            /\ hlsLastEvent'.name = m.name
            /\ \/ hlsLastEvent'.kind = "request"
               \/ hlsLastEvent'.kind = "pathSourceReady" /\ hlsAlwaysRemux
       /\ (hlsLastEvent'.kind = "request" /\ hlsCreated' = hlsCreated + 1)
            => MuxersOf(hlsMuxers, hlsLastEvent'.name) = {}]_vars

C26_Witness ==
    /\ hlsAlwaysRemux
    /\ hlsLastEvent = [kind |-> "pathSourceReady", name |-> "cam"]
    /\ hlsCreated = 3
    /\ MuxersOf(hlsMuxers, "cam") = {[name |-> "cam", id |-> 3]}
    /\ MuxersOf(hlsMuxers, "tv") = {[name |-> "tv", id |-> 2]}

----------------------------------------------------------------------------
\* inactivity of an HLS muxer

\* the muxer closes for inactivity in this step
MuxClosesForInactivity ==
    muxState # "closed" /\ muxState' = "closed" /\ muxWhy' = "inactivity"

\* a close check lets the muxer run on in this step
MuxKeptByCloseCheck ==
    /\ muxState = "running" /\ muxState' = "running"
    /\ muxTickIn = 0 /\ muxTickIn' = Seconds(closeCheckPeriod)

\* C27: with hlsAlwaysRemux false, a muxer that no request has reached for
\* closeAfterInactivity tears itself down at its next close check; a muxer
\* is never torn down for inactivity when hlsAlwaysRemux is true or while
\* less than closeAfterInactivity has passed since its last request.
C27_InactivityTeardown ==
    [][/\ MuxKeptByCloseCheck
            => muxAlwaysRemux \/ muxGap < Seconds(closeAfterInactivity)
       /\ MuxClosesForInactivity
            => /\ ~muxAlwaysRemux
               /\ muxGap >= Seconds(closeAfterInactivity)]_vars

\* the same with the inactivity measured from the whole second in which the
\* last request was handled
C27_TeardownSinceWholeSecond ==
    [][/\ MuxKeptByCloseCheck
            => muxAlwaysRemux \/ muxGap < Seconds(closeAfterInactivity)
       /\ MuxClosesForInactivity
            => /\ ~muxAlwaysRemux
               /\ muxGap > Seconds(closeAfterInactivity - 1)]_vars

----------------------------------------------------------------------------
\* the task of a static source

\* the task starts a connection attempt in this step
SrcConnectsNow == srcConnects' # srcConnects

\* the task tells the path that the source is ready in this step
SrcSignalsReadyNow == taskPc = "setReady" /\ taskPc' # "setReady"

\* after a failed dial or a failed read the task waits retryPause and then
\* connects again, as often as it fails; it only exits when it is closed
C28_RetryAfterPause ==
    [][/\ (SrcConnectsNow /\ srcConnects >= 1) => srcElapsed = retryPause
       /\ (taskPc = "dialWait" /\ srcDial' = "err") => taskPc' = "pauseSelect"
       /\ (taskPc = "readWait" /\ ~srcTerminated') => taskPc' \in {"readWait", "pauseSelect"}
       /\ taskPc' = "exited" => srcTerminated']_vars

\* C28: after a connection failure or a read error the task waits 5 seconds
\* and then reconnects, as often as it fails; once the path has closed it, the
\* task never connects and never signals ready again.
C28_StaticSourceRetry ==
    [][/\ (SrcConnectsNow /\ srcConnects >= 1) => srcElapsed = retryPause
       /\ (taskPc = "dialWait" /\ srcDial' = "err") => taskPc' = "pauseSelect"
       /\ (taskPc = "readWait" /\ ~srcTerminated') => taskPc' \in {"readWait", "pauseSelect"}
       /\ taskPc' = "exited" => srcTerminated'
       /\ srcTerminated => /\ ~(SrcConnectsNow /\ srcConnects >= 1)
                            /\ ~SrcSignalsReadyNow]_vars

----------------------------------------------------------------------------
\* remuxing of H.264 access units

HasIDR(au) == \E i \in 1 .. Len(au) : au[i].hdr % 32 = 5

\* the access unit without its SPS, PPS and AUD NAL units
WithoutParamsAndAUD(au) == SelectSeq(au, LAMBDA x : x.hdr % 32 \notin {7, 8, 9})

\* the stored parameter sets there are, SPS first
StoredSets(stored) == SelectSeq(stored, LAMBDA x : x # NoNALU)

\* C29: an access unit with an IDR is remuxed to the stored SPS and PPS, once,
\* followed by its NAL units in order without the SPS, PPS and AUD ones; an
\* access unit without an IDR is remuxed to its NAL units without the SPS,
\* PPS and AUD ones, nothing prepended.
C29_Remux ==
    h264Pc = "done" =>
        h264Out = IF HasIDR(h264AU)
                  THEN StoredSets(h264Stored) \o WithoutParamsAndAUD(h264AU)
                  ELSE WithoutParamsAndAUD(h264AU)

\* C29 as the code has it: the parameter sets are prepended only when both
\* an SPS and a PPS are stored
C29_RemuxWhenBothStored ==
    h264Pc = "done" =>
        h264Out = IF HasIDR(h264AU) /\ Len(StoredSets(h264Stored)) = 2
                  THEN h264Stored \o WithoutParamsAndAUD(h264AU)
                  ELSE WithoutParamsAndAUD(h264AU)

C29_Witness ==
    /\ h264Pc = "done"
    /\ h264AU = <<[hdr |-> 9, body |-> 7], [hdr |-> 39, body |-> 5],
                 [hdr |-> 37, body |-> 2]>>
    /\ h264Out = <<[hdr |-> 39, body |-> 5], [hdr |-> 104, body |-> 6],
                  [hdr |-> 37, body |-> 2]>>

----------------------------------------------------------------------------
\* recovery of the H.265 parameter sets

\* the last NAL unit of type typ among those the packet carries, or nil
LastCarried(nalus, typ) ==
    LET idx == {i \in 1 .. Len(nalus) : (nalus[i][1] \div 2) % 64 = typ}
    IN IF idx = {} THEN <<>>
       ELSE nalus[CHOOSE i \in idx : \A j \in idx : j <= i]

\* the stored sets a packet that carries nalus has to leave
Recovered(before, nalus) ==
    [i \in 1 .. 3 |->
        IF LastCarried(nalus, 31 + i) = <<>> THEN before[i]
        ELSE LastCarried(nalus, 31 + i)]

\* C30: the VPS, SPS and PPS an inbound RTP packet carries, as a single NAL
\* unit or inside an aggregation packet, are recovered, and every stored set
\* that differs from a recovered one is replaced by it.
C30_ParametersRecovered ==
    h265Pc = "done" =>
        <<h265VPS, h265SPS, h265PPS>> = Recovered(h265Before, h265Carried)

\* the same for the packets that carry a single NAL unit
C30_RecoveredFromSingleNALU ==
    (h265Pc = "done" /\ Len(h265Carried) = 1) =>
        <<h265VPS, h265SPS, h265PPS>> = Recovered(h265Before, h265Carried)

----------------------------------------------------------------------------
\* readers and readiness

\* C31: whenever the readers set of the path is not empty the source of the
\* path is ready (sourceReady is true and the stream is set): no reader is
\* registered on a path that is not ready.
C31_ReadersOnlyWhenReady ==
    Registered(readers) # {} => (sourceReady /\ stream # 0)

\* the same as long as no reader plays after the path has removed and closed
\* it: a play request is the only one that registers its author without
\* looking at the readiness of the path
C31_ReadersOnlyWhenReadyNoLatePlay ==
    [][(/\ Registered(readers') # {}
        /\ ~(sourceReady' /\ stream' # 0))
       => (\/ Registered(readers) # {} /\ ~sourceReady
           \/ (lastOp'.name = "readerPlay" /\ lastOp'.who \in closedR))]_vars

\* the stream a handler of a reader request attaches its author to, or
\* detaches it from, is set
StreamSetWhenUsed ==
    /\ lastOp'.name = "readerPlay" => stream # 0
    /\ (/\ lastOp'.name \in {"readerPause", "readerRemove"}
        /\ readers[lastOp'.who] = "play") => stream # 0

\* C32: the path task never uses an unset stream: whenever it handles a
\* reader play, a reader pause or a reader removal and attaches the reader
\* to, or detaches it from, the stream of the path, that stream is set, also
\* when the reader set up before the publisher left and plays after the path
\* went not ready.
C32_StreamSetWhenUsed == [][StreamSetWhenUsed]_vars

\* the same for the requests of the readers the path has not closed
C32_StreamSetForOpenReaders ==
    [][lastOp'.who \notin closedR => StreamSetWhenUsed]_vars

\* a reader other than an RTSP session that plays on an unset stream stops
\* the process
C32_LatePlayPanics ==
    [][(/\ lastOp'.name = "readerPlay"
        /\ lastOp'.who \notin RTSPReaders
        /\ stream = 0) => crashed']_vars

----------------------------------------------------------------------------
\* on-demand state

\* C33: on an on-demand path, after each request handled by the path task,
\* the on-demand state is Ready or Closing if and only if sourceReady is
\* true; in Initial and in WaitingReady the path is not ready and has no
\* stream.
C33_OnDemandStateReady ==
    (isOnDemand /\ Running) =>
        /\ onDemandState \in {"ready", "closing"} <=> sourceReady
        /\ onDemandState \in {"initial", "waitingReady"} =>
               (~sourceReady /\ stream = 0)

\* the close timer of an on-demand static source has fired while the path was
\* ready: the path is back in Initial, not ready, without stream
C33_Witness ==
    /\ lastOp.name = "onDemandCloseTimer"
    /\ isOnDemand /\ hasStaticSource /\ Running
    /\ onDemandState = "initial"
    /\ ~sourceReady /\ stream = 0
    /\ streamsClosed # {}

\* C34: on an on-demand path, after each request handled by the path task,
\* state Ready implies that at least one reader is registered and state
\* Closing implies that no reader is registered, so the close timer only
\* fires, and closes the source, while the path has no reader.
C34_ReadyHasReaders ==
    (isOnDemand /\ Running) =>
        /\ onDemandState = "ready" => Registered(readers) # {}
        /\ onDemandState = "closing" => Registered(readers) = {}

\* the same as long as no reader plays after the path has removed and closed
\* it
C34_ReadyHasReadersNoLatePlay ==
    [][(/\ isOnDemand /\ Running'
        /\ \/ onDemandState' = "ready" /\ Registered(readers') = {}
           \/ onDemandState' = "closing" /\ Registered(readers') # {})
       => (\/ onDemandState = "closing" /\ Registered(readers) # {}
           \/ (lastOp'.name = "readerPlay" /\ lastOp'.who \in closedR))]_vars

----------------------------------------------------------------------------
\* requests of authors that are not the source of the path any more

\* a record, a pause or a remove of a publisher that is not the source
StalePublisherRequest ==
    /\ lastOp'.name \in {"publisherRecord", "publisherPause", "publisherRemove"}
    /\ source # PubSource(lastOp'.who)

\* a set-ready or a set-not-ready of a static source that is not the source
StaleSourceRequest ==
    \E i \in SrcIds :
        /\ source # StaticSource(i)
        /\ \/ SourceSetReady(i)
           \/ SourceSetReadyLate(i)
           \/ SourceSetNotReady(i)
           \/ (srcPc[i] = "reading" /\ SourceExit(i))

\* C35: a request whose author is no longer the source of the path (a
\* record, pause or remove of a displaced publisher, a set-ready or
\* set-not-ready of a static source that has been replaced or closed) leaves
\* the source, the readiness, the stream, the readers and the on-demand state
\* of the path unchanged.
C35_StaleRequestFrame ==
    [][(Running /\ (StalePublisherRequest \/ StaleSourceRequest))
       => UNCHANGED <<source, sourceReady, stream, readers, onDemandState>>]_vars

\* a displaced publisher has sent RECORD while another publisher is the
\* source: it is refused and the path is as it was
C35_Witness ==
    /\ lastOp.name = "publisherRecord"
    /\ Running
    /\ source.kind = "pub" /\ source # PubSource(lastOp.who)
    /\ recRes[lastOp.who] = ErrRes(ErrNotAssigned)
    /\ sourceReady /\ Registered(readers) # {}

\* a closed static source has signalled ready while its successor is the
\* source
C35_LateSourceSeen ==
    \E i \in SrcIds :
        /\ i \in srcClosed /\ srcPc[i] = "reading"
        /\ source.kind = "static" /\ source # StaticSource(i)
        /\ lastOp.name = "sourceStaticSetReady"
        /\ ~sourceReady

----------------------------------------------------------------------------
\* replies to the describe and setup requests

\* the requests the path task holds
Pending == SeqToSet(describeRequests) \cup SeqToSet(setupPlayRequests)

\* the reply sent to connection c by the last step
ReplyTo(c, dr, sr) ==
    IF c \in Describers THEN dr[c] ELSE sr[c]

\* the step handles a describe or a setup of c
Asks(c) ==
    /\ lastOp'.name \in {"describe", "readerSetupPlay"}
    /\ lastOp'.who = c

\* C36: every describe or setup request accepted by the path task receives
\* exactly one reply: a request held while an on-demand source starts is
\* answered when the source becomes ready, when the ready timer expires or
\* when the path shuts down; none is left pending forever.  A held request
\* always has its answer ahead: the task is alive and the ready timer, which
\* answers at the latest, is armed.
C36_HeldRequestAnswered ==
    (Running /\ Pending # {}) => (Alive /\ readyTimer)

\* the same while the process has not panicked
C36_HeldRequestHasTimer ==
    (Alive /\ Running /\ Pending # {}) =>
        (readyTimer /\ onDemandState = "waitingReady" /\ ~sourceReady)

\* one reply per request: a reply goes to the author of the request being
\* handled or to a held request, which then leaves the queue; a request that
\* is handled is answered or held; a held request leaves the queue with its
\* reply only
C36_OneReply ==
    [][Alive' => \A c \in Describers \cup Readers :
        /\ ReplyTo(c, descRes', setupRes') # NoRes =>
               /\ Asks(c) \/ (Running /\ c \in Pending)
               /\ Running' => c \notin Pending'
        /\ Asks(c) =>
               (ReplyTo(c, descRes', setupRes') # NoRes) # (Running' /\ c \in Pending')
        /\ (Running /\ c \in Pending /\ ~(Running' /\ c \in Pending')) =>
               ReplyTo(c, descRes', setupRes') # NoRes
        /\ Len(describeRequests') + Len(setupPlayRequests') = Cardinality(Pending')]_vars

----------------------------------------------------------------------------
\* cancellation of an HLS muxer

\* C37: when the context of an HLS muxer is cancelled its run task always
\* terminates and notifies the HLS server, whatever point the inner task has
\* reached (waiting for the setup reply of the path, about to signal
\* readiness, streaming): the two tasks are never blocked on each other.
\* Until run has ended one of the two tasks has a step to take, and run ends
\* with the notification.
C37_CancelTerminates ==
    /\ (muxCtxDone /\ runPc # "done") => ENABLED MuxTaskStep
    /\ runPc = "done" => closeNotified

\* the two tasks block each other in one place only: run waits on innerErr
\* and runInner waits to send on innerReady
C37_BlockedOnlyAtReady ==
    /\ (muxCtxDone /\ runPc # "done" /\ ~ENABLED MuxTaskStep) =>
           (runPc = "waitInner" /\ innerPc = "sendReady")
    /\ runPc = "done" => closeNotified

----------------------------------------------------------------------------
\* the lock of the sessions map of the RTSP server

\* C38: the sessions map of the RTSP server is modified only while the
\* exclusive lock is held: a kick never changes the map while a list, or
\* another kick, iterates it under the shared lock.
C38_MapWriteLocked ==
    [][srvSessions' # srvSessions => (rwWriter /\ rwReaders = {})]_vars

\* the callbacks of the library change the map under the exclusive lock; the
\* lock itself never admits a writer next to a reader
C38_CallbacksWriteLocked ==
    [][/\ (srvSessions' # srvSessions /\ \A a \in KickCalls : apiPc'[a] = apiPc[a])
           => (rwWriter /\ rwReaders = {})
       /\ ~(rwWriter' /\ rwReaders' # {})]_vars

\* a kick has deleted a session while a list was iterating the map
C38_RaceSeen ==
    \E a \in KickCalls :
        /\ apiPc[a] = "found"
        /\ apiPc["list"] = "iterating"
        /\ {a, "list"} \subseteq rwReaders
        /\ apiTarget[a] \notin srvSessions

----------------------------------------------------------------------------
\* responses to the HTTP requests forwarded to an HLS muxer

\* the request waits for its response
ReqPending(q) == reqPc[q] \in {"sending", "queued"}

\* something that leads to the response of the request can happen
ReqAhead(q) ==
    ENABLED (MuxTaskStep \/ MuxRunRequest(q) \/ MuxOnRequestCtxDone(q))

\* no request is answered twice, an answered request has its response
C39_AtMostOneResponse ==
    \A q \in HlsRequests :
        /\ Len(reqAnswers[q]) <= 1
        /\ reqPc[q] = "answered" <=> Len(reqAnswers[q]) = 1
        /\ runPc # "done" => (reqPc[q] = "queued" <=> q \in SeqToSet(muxRequests))
        /\ reqPc[q] = "queued" => ~isReady

\* a request sent to a muxer whose context is already cancelled is answered
\* 404
C39_CancelledAnswered404 ==
    \A q \in HlsRequests :
        (reqSentCancelled[q] /\ reqPc[q] = "answered") =>
            reqAnswers[q] = <<StatusNotFound>>

\* no request stays unanswered
C39_NoRequestLeft ==
    \A q \in HlsRequests : ReqPending(q) => ReqAhead(q)

\* C39: every HTTP request forwarded to an HLS muxer receives exactly one
\* response: a request that arrives before the muxer is ready is queued and
\* handled once it is ready, or answered 404 if the muxer terminates first;
\* a request sent to a muxer whose context is already cancelled is answered
\* 404; no request stays unanswered and none is answered twice.
C39_ExactlyOneResponse ==
    /\ C39_AtMostOneResponse
    /\ C39_CancelledAnswered404
    /\ C39_NoRequestLeft

\* a request stays unanswered only when the two tasks of the muxer block
\* each other
C39_LeftOnlyWhenBlocked ==
    \A q \in HlsRequests :
        (ReqPending(q) /\ ~ReqAhead(q)) =>
            (reqPc[q] = "queued" /\ runPc = "waitInner" /\ innerPc = "sendReady")

\* a queued request is handled when the muxer becomes ready and answered 404
\* when run ends first
C39_QueuedAnswers ==
    [][\A q \in HlsRequests :
        (reqPc[q] = "queued" /\ reqPc'[q] = "answered") =>
            reqAnswers'[q] = <<IF isReady' THEN handleRequest(q)
                                          ELSE StatusNotFound>>]_vars

C40_NotifierRegistered ==
    \A c \in hlsEnded : MuxersOf(hlsMuxers, c.name) = {c}

====
